---- MODULE Spec2Model ----
(***************************************************************************)
(* Model of the token-list validator (scripts/validate.js): the run over   *)
(* the chain directories under assets/, the per-file and per-token checks, *)
(* the popular-subset check, the logo checks and the exit verdict.          *)
(*                                                                         *)
(* A JavaScript string is a sequence of atoms: one-character strings for   *)
(* the characters whose letter case matters (the characters of an address) *)
(* and longer literal fragments such as "./" or "logos/".  A JSON value is *)
(* a record [t, v]: t is the JavaScript type tag and v the text of the     *)
(* value, so that 1 and "1" differ and toString is computed.               *)
(***************************************************************************)
EXTENDS Integers, Sequences, FiniteSets, TLC

VARIABLES fs, stats, idx, pc, exitCode, calls, api, prober, tool

vars == <<fs, stats, idx, pc, exitCode, calls, api, prober, tool>>

(***************************************************************************)
(* Bounds of the model.                                                    *)
(***************************************************************************)
\* number of hex characters of an address after the 0x prefix (40 in ethers)
AddrLen == 2
\* chain directories under assets/ in the run-level file systems
NumChains == 2
\* longest tokens array in the file-level file systems
MaxTokens == 3
\* longest tokens array of common.json and popular.json in the pair-level file systems
MaxPairTokens == 2
\* longest tokens array of common.json in the file systems of the lookup functions
MaxApiTokens == 2
\* longest list of URLs handed to processBatch
MaxUrls == 2
\* batch size of processBatch (CONCURRENT_REQUESTS is 5 in the script)
CONCURRENT_REQUESTS == 1
\* const MAX_RETRIES = 2
MAX_RETRIES == 2
\* longest tokens array of common.json in the trees of the normalizers
MaxToolTokens == 1
\* highest value of stats.brokenUrls that is told apart from the ones above it
MaxBroken == 2

(***************************************************************************)
(* Strings.                                                                *)
(***************************************************************************)
ToLowerChar(c) ==
  CASE c = "A" -> "a"
    [] c = "B" -> "b"
    [] c = ".PNG" -> ".png"
    [] OTHER -> c

ToUpperChar(c) ==
  CASE c = "a" -> "A"
    [] c = "b" -> "B"
    [] OTHER -> c

\* String.prototype.toLowerCase
ToLowerCase(s) == [i \in DOMAIN s |-> ToLowerChar(s[i])]

ToUpperCase(s) == [i \in DOMAIN s |-> ToUpperChar(s[i])]

\* String.prototype.startsWith
StartsWith(s, p) == Len(s) >= Len(p) /\ SubSeq(s, 1, Len(p)) = p

\* String.prototype.includes
Includes(s, p) == \E i \in 0..(Len(s) - Len(p)) : SubSeq(s, i + 1, i + Len(p)) = p

\* Array.prototype.join(', ') of a sequence of strings
RECURSIVE Join(_)
Join(ss) ==
  IF ss = <<>> THEN <<>>
  ELSE IF Len(ss) = 1 THEN ss[1]
  ELSE ss[1] \o <<", ">> \o Join(Tail(ss))

(***************************************************************************)
(* JSON values as JavaScript sees them.                                    *)
(***************************************************************************)
Undef == [t |-> "undef", v |-> <<>>]
Null == [t |-> "null", v |-> <<>>]
Num(s) == [t |-> "num", v |-> s]
Str(s) == [t |-> "str", v |-> s]
\* the token key of a file-level violation record, which has none
NoToken == [t |-> "none", v |-> <<>>]

\* JavaScript truthiness of a value (token.address || 'unknown', if (token.address))
Truthy(j) ==
  CASE j.t = "str" -> j.v # <<>>
    [] j.t = "num" -> j.v # <<"0">>
    [] OTHER -> FALSE

\* the text of a value inside a template literal or Array.join
TemplateStr(j) ==
  CASE j.t = "undef" -> <<"undefined">>
    [] j.t = "null" -> <<"null">>
    [] OTHER -> j.v

\* Array.prototype.join renders undefined and null as the empty string
JoinStr(j) == IF j.t \in {"undef", "null"} THEN <<>> ELSE j.v

\* Number.isInteger of a number given by its text
IsInteger(j) == j.t = "num" /\ \A i \in DOMAIN j.v : j.v[i] # "."

(***************************************************************************)
(* ethers.isAddress / ethers.getAddress.  The keccak-256 digest that       *)
(* decides the letter case of the checksum form is replaced by a small     *)
(* arithmetic digest of the lowercase characters; what matters to the      *)
(* validator is that the digest is a function of the lowercase address.    *)
(***************************************************************************)
HexChars == {"a", "b", "A", "B", "1", "0"}

HexBody(s) == IF StartsWith(s, <<"0x">>) THEN Tail(s) ELSE s

\* /^(0x)?[0-9a-fA-F]{40}$/
MatchesAddressPattern(s) ==
  /\ Len(HexBody(s)) = AddrLen
  /\ \A i \in DOMAIN HexBody(s) : HexBody(s)[i] \in HexChars

CharCode(c) ==
  CASE c = "a" -> 10
    [] c = "b" -> 11
    [] c = "1" -> 1
    [] OTHER -> 0

RECURSIVE SumCodes(_)
SumCodes(b) == IF b = <<>> THEN 0 ELSE CharCode(b[1]) * Len(b) + SumCodes(Tail(b))

\* the digest nibble that decides the case of character i
DigestNibble(b, i) == (SumCodes(b) * 3 + 7 * i) % 16

\* getChecksumAddress on a 0x-prefixed address
ChecksumForm(s) ==
  LET b == ToLowerCase(HexBody(s))
  IN  <<"0x">> \o [i \in DOMAIN b |->
                     IF DigestNibble(b, i) >= 8 THEN ToUpperChar(b[i]) ELSE b[i]]

\* /([A-F].*[a-f])|([a-f].*[A-F])/
MixedCase(s) ==
  /\ \E i \in DOMAIN s : s[i] \in {"A", "B"}
  /\ \E i \in DOMAIN s : s[i] \in {"a", "b"}

WithPrefix(s) == IF StartsWith(s, <<"0x">>) THEN s ELSE <<"0x">> \o s

\* ethers.getAddress throws unless this holds (isAddress is getAddress not throwing)
IsAddress(s) ==
  /\ MatchesAddressPattern(s)
  /\ (MixedCase(WithPrefix(s)) => ChecksumForm(s) = WithPrefix(s))

GetAddress(s) == ChecksumForm(s)

isValidChecksumAddress(address) ==
  IF ~IsAddress(address) THEN FALSE ELSE address = GetAddress(address)

(***************************************************************************)
(* The file system the validator reads.  fs is the sequence of chain       *)
(* directories in the order glob('assets/*/') returns them; a directory is *)
(* [name, common, popular, logos].  A document is [exists, readable,       *)
(* indented, parses, hasTokens, tokens]; logos is [exists, files] with     *)
(* files a function from the logo file names to the kind of their content. *)
(***************************************************************************)
requiredFields == <<"chainId", "address", "name", "symbol", "decimals", "logoURI">>

\* fragments of logo URIs and of paths
GitHubRepo == "github.com/First-Point/cosmohub-token-list/"

\* path.join(chainDir, 'logos', name): the path of a logo file
LogoPath(chain, name) == <<"assets/">> \o chain \o <<"/", "logos/">> \o name

FilePath(chain, file) == <<"assets/">> \o chain \o <<"/", file>>

DirPath(chain) == <<"assets/">> \o chain \o <<"/">>

LogoDirPath(chain) == <<"assets/">> \o chain \o <<"/", "logos">>

\* the kind of the content of the file at a path: "absent" when there is none
FileKind(fsys, p) ==
  LET hits == {k \in {"png", "jpeg", "other"} :
                 \E i \in DOMAIN fsys : \E n \in DOMAIN fsys[i].logos.files :
                    /\ fsys[i].logos.exists
                    /\ p = LogoPath(fsys[i].name, n)
                    /\ fsys[i].logos.files[n] = k}
  IN  IF hits = {} THEN "absent" ELSE CHOOSE k \in hits : TRUE

\* fs.pathExists
pathExists(fsys, p) == FileKind(fsys, p) # "absent"

\* the PNG signature (8 bytes) or the JPEG signature (2 bytes)
isValidImageFile(fsys, p) == FileKind(fsys, p) \in {"png", "jpeg"}

\* the ./logos/ branch joined to assets/ without the chain directory
resolveLogoPathNoChain(logoURI, chainId) ==
  IF StartsWith(logoURI, <<"./", "logos/">>)
    THEN [threw |-> chainId.t = "null", path |-> <<"assets/">> \o Tail(logoURI)]
    ELSE [threw |-> FALSE, path |-> <<>>]

\* [threw, path]: path <<>> is the null result; threw is chainId.toString() on null
resolveLogoPath(logoURI, chainId) ==
  LET pattern == <<"assets/">> \o TemplateStr(chainId) \o <<"/", "logos/">>
      first == CHOOSE i \in DOMAIN logoURI :
                 /\ logoURI[i] = "assets/"
                 /\ \A j \in 1..(i - 1) : logoURI[j] # "assets/"
  IN  IF StartsWith(logoURI, <<"http">>) THEN [threw |-> FALSE, path |-> <<>>]
      ELSE IF StartsWith(logoURI, <<"./", "logos/">>)
        THEN IF chainId.t = "null"
               THEN [threw |-> TRUE, path |-> <<>>]
               ELSE [threw |-> FALSE,
                     path |-> <<"assets/">> \o chainId.v \o <<"/">> \o Tail(logoURI)]
      ELSE IF StartsWith(logoURI, <<"/", "assets/">>)
        THEN [threw |-> FALSE, path |-> Tail(logoURI)]
      ELSE IF Includes(logoURI, <<GitHubRepo>>) /\ Includes(logoURI, pattern)
        THEN [threw |-> FALSE, path |-> SubSeq(logoURI, first, Len(logoURI))]
      ELSE [threw |-> FALSE, path |-> <<>>]

\* the missing-field messages of a token, in the order of requiredFields
MissingFieldErrors(token) ==
  LET F[i \in 0..Len(requiredFields)] ==
        IF i = 0 THEN <<>>
        ELSE IF token[requiredFields[i]].t = "undef"
          THEN Append(F[i - 1], <<"Missing required field", requiredFields[i]>>)
          ELSE F[i - 1]
  IN  F[Len(requiredFields)]

\* token.address || 'unknown'
TokenKey(token) == IF Truthy(token.address) THEN token.address ELSE Str(<<"unknown">>)

\* the logoURI shapes validateToken accepts
AcceptedLogoURI(u) ==
  \/ StartsWith(u, <<"http">>)
  \/ StartsWith(u, <<"./", "logos/">>)
  \/ StartsWith(u, <<"/", "assets/">>)
  \/ Includes(u, <<GitHubRepo>>)

\* the messages of the chainId, address, name, symbol and decimals checks
FieldTypeErrors(token) ==
  (IF token.chainId.t # "num" THEN << <<"chainId must be a number">> >> ELSE <<>>)
  \o (IF token.address.t # "str" THEN << <<"address must be a string">> >>
      ELSE IF ~isValidChecksumAddress(token.address.v)
        THEN << <<"address is not a valid checksum address">> \o token.address.v >>
        ELSE <<>>)
  \o (IF token.name.t # "str" THEN << <<"name must be a string">> >> ELSE <<>>)
  \o (IF token.symbol.t # "str" THEN << <<"symbol must be a string">> >> ELSE <<>>)
  \o (IF ~IsInteger(token.decimals) THEN << <<"decimals must be an integer">> >> ELSE <<>>)

\* the outcome of a logo check: its messages, whether it threw, and what it
\* adds to stats.missingLogoFiles and stats.invalidLogoFiles
LogoOutcome(errors, threw, missing, invalid) ==
  [errors |-> errors, threw |-> threw, missing |-> missing, invalid |-> invalid]

\* the check of the local logo file, given what resolveLogoPath returned
LogoFileCheck(fsys, r) ==
  IF r.threw THEN LogoOutcome(<<>>, TRUE, 0, 0)
  ELSE IF r.path = <<>> THEN LogoOutcome(<<>>, FALSE, 0, 0)
  ELSE IF ~pathExists(fsys, r.path)
    THEN LogoOutcome(<< <<"Logo file does not exist">> \o r.path >>, FALSE, 1, 0)
  ELSE IF ~isValidImageFile(fsys, r.path)
    THEN LogoOutcome(<< <<"Logo file is not a valid PNG or JPEG image">> \o r.path >>,
                     FALSE, 0, 1)
  ELSE LogoOutcome(<<>>, FALSE, 0, 0)

\* the logoURI check of a token
LogoCheck(fsys, token) ==
  IF token.logoURI.t # "str"
    THEN LogoOutcome(<< <<"logoURI must be a string">> >>, FALSE, 0, 0)
  ELSE IF ~AcceptedLogoURI(token.logoURI.v)
    THEN LogoOutcome(<< <<"logoURI must be a valid URL or a local file path">> >>, FALSE, 0, 0)
  ELSE LogoFileCheck(fsys, resolveLogoPath(token.logoURI.v, token.chainId))

\* the type, address and logo messages of a token that has every field:
\* [errors, threw, missing, invalid]
TypeErrors(fsys, token) ==
  [LogoCheck(fsys, token) EXCEPT !.errors = FieldTypeErrors(token) \o @]

\* what validateToken returns when an exception leaves it
TokenThrew == [threw |-> TRUE, valid |-> FALSE, records |-> <<>>, missing |-> 0, invalid |-> 0]

\* what validateToken returns and records for a token with the given messages
TokenResult(token, file, errors, missing, invalid) ==
  IF errors # <<>>
    THEN [threw |-> FALSE, valid |-> FALSE,
          records |-> << [file |-> file, token |-> TokenKey(token), errors |-> errors] >>,
          missing |-> missing, invalid |-> invalid]
    ELSE [threw |-> FALSE, valid |-> TRUE, records |-> <<>>, missing |-> 0, invalid |-> 0]

\* the end of validateToken, given the outcome ty of the type, address and logo checks
TypedResult(token, file, ty) ==
  IF ty.threw THEN TokenThrew
  ELSE TokenResult(token, file, ty.errors, ty.missing, ty.invalid)

\* validateToken without the early return on missing fields
validateTokenNoShortCircuit(fsys, token, file) ==
  IF token.entry = "null" THEN TokenThrew
  ELSE TypedResult(token, file,
                   [TypeErrors(fsys, token) EXCEPT !.errors = MissingFieldErrors(token) \o @])

\* validateToken(token, file): [threw, valid, records, missing, invalid], the
\* records it appends to stats.errors and what it adds to the two logo counters;
\* threw when token[field] is read on a null entry or resolveLogoPath throws
validateToken(fsys, token, file) ==
  IF token.entry = "null" THEN TokenThrew
  ELSE IF MissingFieldErrors(token) # <<>>
    THEN TokenResult(token, file, MissingFieldErrors(token), 0, 0)
  ELSE TypedResult(token, file, TypeErrors(fsys, token))

\* the distinct chainId values of the tokens, in order of first occurrence
\* (new Set(tokens.map(token => token.chainId)))
DistinctChainIds(tokens) ==
  LET D[i \in 0..Len(tokens)] ==
        IF i = 0 THEN <<>>
        ELSE IF \E j \in DOMAIN D[i - 1] : D[i - 1][j] = tokens[i].chainId
          THEN D[i - 1]
          ELSE Append(D[i - 1], tokens[i].chainId)
  IN  D[Len(tokens)]

\* the record validateFile's catch block appends
ReadError(file) == [file |-> file, token |-> NoToken, errors |-> << <<"Error reading file">> >>]

\* the duplicate pushed in its lowercase form instead of the literal one
DuplicatePushLower(duplicates, address) == Append(duplicates, ToLowerCase(address))

\* the addresses validateFile pushes to duplicates, given those it has seen
DuplicatePush(duplicates, address) == Append(duplicates, address)

\* the loop body after validateToken returned r: allTokensValid and the counters
CountToken(a, r) ==
  [a EXCEPT !.records = @ \o r.records,
            !.missing = @ + r.missing,
            !.invalid = @ + r.invalid,
            !.allTokensValid = @ /\ r.valid,
            !.visited = @ + 1]

\* the loop body's duplicate tracking: if (token.address) { ... }
TrackAddress(b, token) ==
  IF ~Truthy(token.address) THEN b
  ELSE IF token.address.t # "str" THEN [b EXCEPT !.aborted = TRUE]
  ELSE IF ToLowerCase(token.address.v) \in b.addresses
    THEN [b EXCEPT !.duplicates = DuplicatePush(@, token.address.v)]
    ELSE [b EXCEPT !.addresses = @ \cup {ToLowerCase(token.address.v)}]

\* one iteration of the token loop from the local state a, validateToken having returned r
TokenStep(a, token, r) ==
  IF r.threw THEN [a EXCEPT !.aborted = TRUE, !.visited = @ + 1]
  ELSE TrackAddress(CountToken(a, r), token)

\* the token loop of validateFile: the state of its local variables after the
\* last token; aborted when validateToken throws or toLowerCase is called
\* on an address that is not a string
TokenLoop(fsys, file, tokens) ==
  LET start == [records |-> <<>>, missing |-> 0, invalid |-> 0, allTokensValid |-> TRUE,
                addresses |-> {}, duplicates |-> <<>>, aborted |-> FALSE, visited |-> 0]
      L[i \in 0..Len(tokens)] ==
        IF i = 0 THEN start
        ELSE IF L[i - 1].aborted THEN L[i - 1]
        ELSE TokenStep(L[i - 1], tokens[i], validateToken(fsys, tokens[i], file))
  IN  L[Len(tokens)]

\* the chain-ID consistency check at the end of validateFile
ChainIdRecords(file, tokens) ==
  LET ids == DistinctChainIds(tokens)
  IN  IF Len(ids) > 1
        THEN << [file |-> file, token |-> NoToken,
                 errors |-> << <<"Multiple chainIds found">>
                                 \o Join([i \in DOMAIN ids |-> JoinStr(ids[i])]) >>] >>
        ELSE <<>>

\* the duplicate report at the end of validateFile
DuplicateRecords(file, duplicates) ==
  IF Len(duplicates) > 0
    THEN << [file |-> file, token |-> NoToken,
             errors |-> << <<"Duplicate addresses found">> \o Join(duplicates) >>] >>
    ELSE <<>>

\* the end of validateFile: the catch block when the token loop aborted, else the
\* duplicate report dup and the chain-ID report cid and the returned verdict
LoopResult(file, l, dup, cid) ==
  IF l.aborted
    THEN [valid |-> FALSE, records |-> l.records \o <<ReadError(file)>>,
          missing |-> l.missing, invalid |-> l.invalid,
          visited |-> l.visited, aborted |-> TRUE]
    ELSE [valid |-> l.allTokensValid /\ dup = <<>> /\ cid = <<>>,
          records |-> l.records \o dup \o cid,
          missing |-> l.missing, invalid |-> l.invalid,
          visited |-> l.visited, aborted |-> FALSE]

\* the checks of a document that has a non-empty tokens array
CheckTokens(file, l, tokens) ==
  LoopResult(file, l, DuplicateRecords(file, l.duplicates), ChainIdRecords(file, tokens))

\* validateFile(filePath): [valid, records, missing, invalid, visited, aborted]
validateFile(fsys, file, doc) ==
  LET fail(msg) == [valid |-> FALSE,
                    records |-> << [file |-> file, token |-> NoToken, errors |-> << <<msg>> >>] >>,
                    missing |-> 0, invalid |-> 0, visited |-> 0, aborted |-> FALSE]
  IN  IF ~doc.readable THEN fail("Error reading file")
      ELSE IF ~doc.indented THEN fail("File is not formatted with 2-space indentation")
      ELSE IF ~doc.parses THEN fail("Invalid JSON")
      ELSE IF ~doc.hasTokens THEN fail("Missing tokens array")
      ELSE IF doc.tokens = <<>>
        THEN [valid |-> TRUE, records |-> <<>>, missing |-> 0, invalid |-> 0,
              visited |-> 0, aborted |-> FALSE]
      ELSE CheckTokens(file, TokenLoop(fsys, file, doc.tokens), doc.tokens)

\* the literal addresses of popular's tokens that match no address of common
\* ignoring case, in document order
invalidTokens(common, popular) ==
  LET commonAddresses == {ToLowerCase(common.tokens[i].address.v) : i \in DOMAIN common.tokens}
  IN  SelectSeq([i \in DOMAIN popular.tokens |-> popular.tokens[i].address.v],
                LAMBDA a : ToLowerCase(a) \notin commonAddresses)

\* one record for each unmatched address
SubsetRecordsEach(file, unmatched) ==
  [i \in DOMAIN unmatched |->
     [file |-> file, token |-> NoToken,
      errors |-> << <<"Contains tokens not found in common.json">> \o unmatched[i] >>]]

\* the records validatePopularSubset appends for the unmatched addresses
SubsetRecords(file, unmatched) ==
  IF unmatched # <<>>
    THEN << [file |-> file, token |-> NoToken,
             errors |-> << <<"Contains tokens not found in common.json">> \o Join(unmatched) >>] >>
    ELSE <<>>

\* validatePopularSubset(commonPath, popularPath): [valid, records]
validatePopularSubset(file, common, popular) ==
  LET throws(doc) == \/ ~doc.readable \/ ~doc.parses \/ ~doc.hasTokens
                     \/ \E i \in DOMAIN doc.tokens :
                          doc.tokens[i].entry = "null" \/ doc.tokens[i].address.t # "str"
      bad == invalidTokens(common, popular)
  IN  IF throws(common) \/ throws(popular)
        THEN [valid |-> FALSE,
              records |-> << [file |-> file, token |-> NoToken,
                              errors |-> << <<"Error validating popular subset">> >>] >>]
        ELSE [valid |-> bad = <<>>, records |-> SubsetRecords(file, bad)]

\* the order in which glob lists the files of a logos directory
RECURSIVE SetToSeq(_)
SetToSeq(S) ==
  IF S = {} THEN <<>>
  ELSE LET x == CHOOSE y \in S : TRUE IN <<x>> \o SetToSeq(S \ {x})

\* validateLogoDirectory(chainDir): [records, invalidCount]
validateLogoDirectory(chain, logos) ==
  LET pngs == SetToSeq({n \in DOMAIN logos.files :
                          logos.files[n] # "absent" /\ n[Len(n)] = ".png"})
      badOnes == SelectSeq(pngs, LAMBDA n : logos.files[n] \notin {"png", "jpeg"})
  IN  IF ~logos.exists
        THEN [records |-> << [file |-> LogoDirPath(chain), token |-> NoToken,
                              errors |-> << <<"Logo directory not found">> >>] >>,
              invalidCount |-> 0]
        ELSE [records |-> [i \in DOMAIN badOnes |->
                             [file |-> LogoPath(chain, badOnes[i]), token |-> NoToken,
                              errors |-> << <<"Not a valid PNG or JPEG image file">> >>]],
              invalidCount |-> Len(badOnes)]

(***************************************************************************)
(* validateTokenLists: the loop over the chain directories and the         *)
(* summary.  calls records, for every directory visited, what the loop     *)
(* body called and what the calls returned.                                *)
(***************************************************************************)
\* the record pushed when common.json or popular.json is absent
NotFound(chain, what) ==
  [file |-> DirPath(chain), token |-> NoToken, errors |-> << <<what>> >>]

\* the verdict without the invalid-logo count
hasErrorsNoLogoCount(st) == st.invalidFiles > 0 \/ st.missingLogoFiles > 0

\* const hasErrors = stats.invalidFiles > 0 || stats.missingLogoFiles > 0 || ...
hasErrors(st) == st.invalidFiles > 0 \/ st.missingLogoFiles > 0 \/ st.invalidLogoFiles > 0

\* the subset check run whenever popular.json alone is valid
RunsSubsetCheckPopularOnly(commonValid, popularValid) == popularValid

\* whether the loop body runs validatePopularSubset
RunsSubsetCheck(commonValid, popularValid) == commonValid /\ popularValid

\* popular.json counted without regard to the subset check
PopularCountedNoSubset(popularValid, popularSubsetValid) == popularValid

\* whether popular.json is counted as a valid file
PopularCounted(popularValid, popularSubsetValid) == popularValid /\ popularSubsetValid

\* the entry of calls for a directory whose common.json or popular.json is absent
Skipped(d, what) ==
  [chain |-> d.name, step |-> what, first |-> Len(stats.errors) + 1,
   commonValid |-> FALSE, popularValid |-> FALSE,
   subsetRan |-> FALSE, popularSubsetValid |-> FALSE,
   commonVisited |-> 0, popularVisited |-> 0,
   commonAborted |-> FALSE, popularAborted |-> FALSE]

\* the loop body with stats.totalFiles += 1
CountFilesOnePerChain(d, logo, c, p, runs, s) ==
  /\ stats' =
       [totalFiles |-> stats.totalFiles + 1,
        validFiles |-> stats.validFiles
                         + (IF c.valid THEN 1 ELSE 0)
                         + (IF PopularCounted(p.valid, runs /\ s.valid) THEN 1 ELSE 0),
        invalidFiles |-> stats.invalidFiles
                         + (IF c.valid THEN 0 ELSE 1)
                         + (IF PopularCounted(p.valid, runs /\ s.valid) THEN 0 ELSE 1),
        missingLogoFiles |-> stats.missingLogoFiles + c.missing + p.missing,
        invalidLogoFiles |-> stats.invalidLogoFiles + logo.invalidCount
                               + c.invalid + p.invalid,
        errors |-> stats.errors \o logo.records \o c.records \o p.records
                     \o (IF runs THEN s.records ELSE <<>>)]
  /\ calls' = Append(calls,
       [chain |-> d.name, step |-> "validated", first |-> Len(stats.errors) + 1,
        commonValid |-> c.valid, popularValid |-> p.valid,
        subsetRan |-> runs, popularSubsetValid |-> runs /\ s.valid,
        commonVisited |-> c.visited, popularVisited |-> p.visited,
        commonAborted |-> c.aborted, popularAborted |-> p.aborted])

\* the loop body for a directory that has both files: logo, c and p are what
\* validateLogoDirectory and the two validateFile calls returned, runs whether
\* validatePopularSubset is called and s what it returned
CountFiles(d, logo, c, p, runs, s) ==
  /\ stats' =
       [totalFiles |-> stats.totalFiles + 2,
        validFiles |-> stats.validFiles
                         + (IF c.valid THEN 1 ELSE 0)
                         + (IF PopularCounted(p.valid, runs /\ s.valid) THEN 1 ELSE 0),
        invalidFiles |-> stats.invalidFiles
                         + (IF c.valid THEN 0 ELSE 1)
                         + (IF PopularCounted(p.valid, runs /\ s.valid) THEN 0 ELSE 1),
        missingLogoFiles |-> stats.missingLogoFiles + c.missing + p.missing,
        invalidLogoFiles |-> stats.invalidLogoFiles + logo.invalidCount
                               + c.invalid + p.invalid,
        errors |-> stats.errors \o logo.records \o c.records \o p.records
                     \o (IF runs THEN s.records ELSE <<>>)]
  /\ calls' = Append(calls,
       [chain |-> d.name, step |-> "validated", first |-> Len(stats.errors) + 1,
        commonValid |-> c.valid, popularValid |-> p.valid,
        subsetRan |-> runs, popularSubsetValid |-> runs /\ s.valid,
        commonVisited |-> c.visited, popularVisited |-> p.visited,
        commonAborted |-> c.aborted, popularAborted |-> p.aborted])

\* one iteration of for (const chainDir of chainDirs)
VisitChain ==
  /\ pc = "loop"
  /\ idx <= Len(fs)
  /\ \E d \in {fs[idx]} :
       IF ~d.common.exists
         THEN /\ stats' = [stats EXCEPT
                             !.errors = Append(@, NotFound(d.name, "common.json not found")),
                             !.invalidFiles = @ + 1]
              /\ calls' = Append(calls, Skipped(d, "noCommon"))
       ELSE IF ~d.popular.exists
         THEN /\ stats' = [stats EXCEPT
                             !.errors = Append(@, NotFound(d.name, "popular.json not found")),
                             !.invalidFiles = @ + 1]
              /\ calls' = Append(calls, Skipped(d, "noPopular"))
       ELSE \E logo \in {validateLogoDirectory(d.name, d.logos)},
               c \in {validateFile(fs, FilePath(d.name, "common.json"), d.common)},
               p \in {validateFile(fs, FilePath(d.name, "popular.json"), d.popular)} :
              \E runs \in {RunsSubsetCheck(c.valid, p.valid)} :
                \E s \in {IF runs
                            THEN validatePopularSubset(FilePath(d.name, "popular.json"),
                                                       d.common, d.popular)
                            ELSE [valid |-> FALSE, records |-> <<>>]} :
                  CountFiles(d, logo, c, p, runs, s)
  /\ idx' = idx + 1
  /\ UNCHANGED <<fs, pc, exitCode, api, prober, tool>>

\* the summary and the verdict produced as soon as a file has been counted invalid
SummaryAtFirstFailure ==
  /\ pc = "loop"
  /\ (idx > Len(fs) \/ stats.invalidFiles > 0)
  /\ pc' = "done"
  /\ exitCode' = IF hasErrors(stats) THEN 1 ELSE 0
  /\ UNCHANGED <<fs, stats, idx, calls, api, prober, tool>>

\* the summary and the verdict after the loop: process.exit(1) or a normal end
Summary ==
  /\ pc = "loop"
  /\ idx > Len(fs)
  /\ pc' = "done"
  /\ exitCode' = IF hasErrors(stats) THEN 1 ELSE 0
  /\ UNCHANGED <<fs, stats, idx, calls, api, prober, tool>>

Next == VisitChain \/ Summary

\* no call of the package's lookup functions is under way
ApiIdle == [op |-> "idle"]

\* processBatch has not been called
ProberOff == [phase |-> "off"]

\* no normalizer or renamer script has been started
ToolOff == [script |-> "off"]

\* the state of the module-level stats object and of the run before the loop
Start ==
  /\ stats = [totalFiles |-> 0, validFiles |-> 0, invalidFiles |-> 0,
              missingLogoFiles |-> 0, invalidLogoFiles |-> 0, errors |-> <<>>]
  /\ idx = 1
  /\ pc = "loop"
  /\ exitCode = -1
  /\ calls = <<>>
  /\ api = ApiIdle
  /\ prober = ProberOff
  /\ tool = ToolOff

(***************************************************************************)
(* The inputs: addresses, tokens, documents and file systems.              *)
(***************************************************************************)
\* a hex body of AddrLen characters that starts with the given characters
Pad(b) == b \o [i \in 1..(AddrLen - Len(b)) |-> "1"]

SwapCase(s) == [i \in DOMAIN s |->
                  IF s[i] \in {"a", "b"} THEN ToUpperChar(s[i]) ELSE ToLowerChar(s[i])]

LowerA == <<"0x">> \o Pad(<<"a", "b">>)
LowerB == <<"0x">> \o Pad(<<"b", "a">>)
LowerC == <<"0x">> \o Pad(<<"b", "1">>)
\* an address without letters: its lowercase and checksum forms coincide
Digits == <<"0x">> \o Pad(<<"1", "0">>)
ChecksumA == GetAddress(LowerA)
ChecksumB == GetAddress(LowerB)
ChecksumC == GetAddress(LowerC)
UpperA == <<"0x">> \o ToUpperCase(HexBody(LowerA))
\* a mixed-case form with a wrong checksum
WrongCaseA == <<"0x">> \o SwapCase(HexBody(ChecksumA))

AddressStrings ==
  {LowerA, ChecksumA, UpperA, WrongCaseA, ChecksumB, Digits,
   HexBody(ChecksumA), <<"0x", "z">>, <<>>}

Chain1 == <<"1">>

LogoNameA == LowerA \o <<".png">>
LogoNameB == LowerB \o <<".png">>

RemoteURI == <<"http", "s://example.com/a.png">>
RelativeURI(name) == <<"./", "logos/">> \o name
AbsoluteURI(chain, name) == <<"/">> \o LogoPath(chain, name)
GitHubURI(chain, name) == <<"http", "s://", GitHubRepo, "blob/main/">> \o LogoPath(chain, name)
BareGitHubURI(chain, name) == <<GitHubRepo, "blob/main/">> \o LogoPath(chain, name)

ChainIdValues == {Undef, Null, Num(<<"1">>), Num(<<"2">>), Str(<<"1">>)}
AddressValues == {Undef, Num(<<"5">>)} \cup {Str(a) : a \in AddressStrings}
NameValues == {Undef, Str(<<"Test">>), Num(<<"7">>)}
SymbolValues == {Undef, Str(<<"TST">>), Num(<<"7">>)}
DecimalsValues == {Undef, Num(<<"18">>), Num(<<"1", ".", "5">>), Str(<<"18">>)}
LogoURIValues ==
  {Undef, Num(<<"1">>), Str(RemoteURI), Str(RelativeURI(LogoNameA)),
   Str(AbsoluteURI(Chain1, LogoNameA)), Str(GitHubURI(Chain1, LogoNameA)),
   Str(BareGitHubURI(Chain1, LogoNameA)), Str(<<"ipfs://a.png">>)}

\* an entry of a tokens array: an object with these values, or null
Token(chainId, address, name, symbol, decimals, logoURI) ==
  [entry |-> "object", chainId |-> chainId, address |-> address, name |-> name,
   symbol |-> symbol, decimals |-> decimals, logoURI |-> logoURI]

NullEntry == [Token(Undef, Undef, Undef, Undef, Undef, Undef) EXCEPT !.entry = "null"]

\* a token whose name, symbol, decimals and logoURI pass
Plain(chainId, address) ==
  Token(chainId, address, Str(<<"Test">>), Str(<<"TST">>), Num(<<"18">>), Str(RemoteURI))

\* a token of a chain with a local logo
Local(chain, address, name) ==
  Token(Num(chain), Str(address), Str(<<"Test">>), Str(<<"TST">>), Num(<<"18">>),
        Str(RelativeURI(name)))

AllTokens ==
  {NullEntry} \cup
  {Token(c, a, n, s, d, l) : c \in ChainIdValues, a \in AddressValues, n \in NameValues,
                             s \in SymbolValues, d \in DecimalsValues, l \in LogoURIValues}

Doc(tokens) ==
  [exists |-> TRUE, readable |-> TRUE, indented |-> TRUE, parses |-> TRUE,
   hasTokens |-> TRUE, tokens |-> tokens]

AbsentDoc == [Doc(<<>>) EXCEPT !.exists = FALSE]
UnreadableDoc == [Doc(<<>>) EXCEPT !.readable = FALSE]
CompactDoc(tokens) == [Doc(tokens) EXCEPT !.indented = FALSE]
BadJsonDoc == [Doc(<<>>) EXCEPT !.parses = FALSE]
NoTokensDoc == [Doc(<<>>) EXCEPT !.hasTokens = FALSE]

SeqsUpTo(S, n) == UNION {[1..k -> S] : k \in 0..n}

NoLogos == [exists |-> FALSE, files |-> [n \in {LogoNameA, LogoNameB} |-> "absent"]]
Logos(a, b) ==
  [exists |-> TRUE, files |-> [n \in {LogoNameA, LogoNameB} |-> IF n = LogoNameA THEN a ELSE b]]

Dir(name, common, popular, logos) ==
  [name |-> name, common |-> common, popular |-> popular, logos |-> logos]

\* token level: one chain, common.json holds one entry out of all the entries
TokenFileSystems ==
  {<< Dir(Chain1, Doc(<<t>>), Doc(<<>>), Logos(k, "absent")) >> :
     t \in AllTokens, k \in {"absent", "png", "other"}}

\* file level: one chain, common.json holds up to MaxTokens entries
FileTokens ==
  {NullEntry} \cup
  {Plain(c, a) : c \in {Num(<<"1">>), Num(<<"2">>)},
                 a \in {Str(ChecksumA), Str(LowerA), Str(ChecksumB), Str(<<>>),
                        Num(<<"5">>), Undef}}

FileFileSystems ==
  {<< Dir(Chain1, Doc(ts), Doc(<<>>), Logos("png", "png")) >> :
     ts \in SeqsUpTo(FileTokens, MaxTokens)}

\* pair level: one chain, common.json and popular.json of up to MaxPairTokens tokens
PairTokens ==
  {Plain(Num(<<"1">>), Str(a)) : a \in {ChecksumA, ChecksumB, ChecksumC, LowerA}}
  \cup {Plain(Undef, Str(ChecksumA))}

PairDocs ==
  {Doc(ts) : ts \in SeqsUpTo(PairTokens, MaxPairTokens)}
  \cup {CompactDoc(<<Plain(Num(<<"1">>), Str(ChecksumA))>>), BadJsonDoc, NoTokensDoc,
        UnreadableDoc}

PairFileSystems ==
  {<< Dir(Chain1, c, p, Logos("png", "png")) >> : c \in PairDocs, p \in PairDocs}

\* run level: NumChains chain directories
RunCommonDoc(chain, kind) ==
  CASE kind = "absent" -> AbsentDoc
    [] kind = "checksum" -> Doc(<<Local(chain, ChecksumA, LogoNameA)>>)
    [] kind = "lowercase" -> Doc(<<Local(chain, LowerA, LogoNameA)>>)
    [] kind = "unreadable" -> UnreadableDoc
    [] kind = "unparsable" -> BadJsonDoc
    [] kind = "nullEntry" -> Doc(<<NullEntry, Local(chain, ChecksumA, LogoNameA)>>)
    [] kind = "remote" -> Doc(<<Plain(Num(chain), Str(ChecksumA))>>)

RunPopularDoc(chain, kind) ==
  CASE kind = "absent" -> AbsentDoc
    [] kind = "same" -> Doc(<<Local(chain, ChecksumA, LogoNameA)>>)
    [] kind = "other" -> Doc(<<Local(chain, ChecksumB, LogoNameB)>>)
    [] kind = "remote" -> Doc(<<Plain(Num(chain), Str(ChecksumA))>>)

RunLogos == {NoLogos, Logos("png", "png"), Logos("png", "other")}

\* what a chain directory holds: every combination of the plain documents and
\* logo directories, a common.json that cannot be read, parsed or walked, and
\* documents whose tokens have remote logos, with and without a logos directory
RunChoices ==
  ({"absent", "checksum", "lowercase"} \X {"absent", "same", "other"} \X RunLogos)
  \cup {<<k, "same", Logos("png", "png")>> : k \in {"unreadable", "unparsable", "nullEntry"}}
  \cup {<<"remote", "remote", l>> : l \in {NoLogos, Logos("png", "png")}}

\* the names of the chain directories: 1, 10, 100, ...
ChainNames == [i \in 1..NumChains |-> <<"1">> \o [j \in 1..(i - 1) |-> "0"]]

RunFileSystems ==
  {[i \in 1..NumChains |->
      Dir(ChainNames[i], RunCommonDoc(ChainNames[i], g[i][1]),
          RunPopularDoc(ChainNames[i], g[i][2]), g[i][3])] :
     g \in [1..NumChains -> RunChoices]}

Init == fs \in RunFileSystems /\ Start
Spec == Init /\ [][Next]_vars

InitToken == fs \in TokenFileSystems /\ Start
SpecToken == InitToken /\ [][Next]_vars

InitFile == fs \in FileFileSystems /\ Start
SpecFile == InitFile /\ [][Next]_vars

InitPair == fs \in PairFileSystems /\ Start
SpecPair == InitPair /\ [][Next]_vars

\* scenario level: chain directory 1 whose documents each hold one token with a
\* local logo, indented or on one line, and every content of the logos directory
ScenarioTokens ==
  {Local(Chain1, a, n) : a \in {ChecksumA, LowerA, ChecksumB}, n \in {LogoNameA, LogoNameB}}

ScenarioDocs ==
  {Doc(<<t>>) : t \in ScenarioTokens} \cup {CompactDoc(<<t>>) : t \in ScenarioTokens}

ScenarioLogos == {NoLogos} \cup {Logos(a, b) : a, b \in {"absent", "png", "other"}}

ScenarioFileSystems ==
  {<< Dir(Chain1, c, p, l) >> : c \in ScenarioDocs, p \in ScenarioDocs, l \in ScenarioLogos}

InitScenario == fs \in ScenarioFileSystems /\ Start
SpecScenario == InitScenario /\ [][Next]_vars

(***************************************************************************)
(* The package's lookup functions (index.js): getChainIds, getTokens,      *)
(* getTokenByAddress.  api holds the call under way: its arguments and what *)
(* it settled with.  A path is a sequence of segments; a trailing slash is  *)
(* not a segment.                                                           *)
(***************************************************************************)
\* an entry of glob('assets/*/'): the segments of the path of a chain directory
GlobDir(name) == << <<"assets">>, name >>

\* path.dirname: the path without its last segment, "." for a single segment
dirname(p) == IF Len(p) <= 1 THEN << <<".">> >> ELSE SubSeq(p, 1, Len(p) - 1)

\* path.basename: the last segment
basename(p) == p[Len(p)]

DecimalDigits == {"0", "1", "2", "3", "4", "5", "6", "7", "8", "9"}

NaN == [t |-> "nan", v |-> <<>>]

\* parseInt(s, 10) of a string without sign or blanks: the number written by
\* the longest prefix of decimal digits, NaN when that prefix is empty
parseInt(s) ==
  LET n == CHOOSE k \in 0..Len(s) :
             /\ \A i \in 1..k : s[i] \in DecimalDigits
             /\ (k < Len(s) => s[k + 1] \notin DecimalDigits)
  IN  IF n = 0 THEN NaN ELSE Num(SubSeq(s, 1, n))

\* getChainIds(): the chain IDs parsed from the glob entries, NaN filtered out
getChainIds(fsys) ==
  SelectSeq([i \in DOMAIN fsys |-> parseInt(basename(dirname(GlobDir(fsys[i].name))))],
            LAMBDA c : c # NaN)

\* what an async function settles with: a value, or the rejection of its promise
Returned(value) == [threw |-> FALSE, value |-> value]
Rejected == [threw |-> TRUE, value |-> Null]

\* getTokens(chainId): the tokens of assets/<chainId>/common.json, [] when the
\* document has no tokens; rejected when fs.readJson fails
getTokens(fsys, chainId) ==
  IF \E i \in DOMAIN fsys :
       /\ fsys[i].name = chainId.v
       /\ fsys[i].common.exists /\ fsys[i].common.readable /\ fsys[i].common.parses
    THEN Returned(LET d == fsys[CHOOSE i \in DOMAIN fsys : fsys[i].name = chainId.v].common
                  IN  IF d.hasTokens THEN d.tokens ELSE <<>>)
    ELSE Rejected

\* tokens.find(token => token.address.toLowerCase() === normalizedAddress) || null:
\* the predicate throws on an entry that is null or whose address is no string
FindByAddress(tokens, normalizedAddress) ==
  LET F[i \in 1..(Len(tokens) + 1)] ==
        IF i > Len(tokens) THEN Returned(Null)
        ELSE IF tokens[i].entry = "null" \/ tokens[i].address.t # "str" THEN Rejected
        ELSE IF ToLowerCase(tokens[i].address.v) = normalizedAddress
          THEN Returned(tokens[i])
        ELSE F[i + 1]
  IN  F[1]

\* the end of getTokenByAddress, given what getTokens settled with
FindIn(loaded, address) ==
  IF loaded.threw THEN Rejected ELSE FindByAddress(loaded.value, ToLowerCase(address))

\* getTokenByAddress(chainId, address)
getTokenByAddress(fsys, chainId, address) == FindIn(getTokens(fsys, chainId), address)

\* a call of getTokenByAddress and what it settles with
CallGetTokenByAddress(chainId, address) ==
  /\ api.op = "idle"
  /\ api' = [op |-> "getTokenByAddress", chainId |-> chainId, address |-> address,
             result |-> getTokenByAddress(fs, chainId, address)]
  /\ UNCHANGED <<fs, stats, idx, pc, exitCode, calls, prober, tool>>

\* a call of getChainIds and what it settles with
CallGetChainIds ==
  /\ api.op = "idle"
  /\ api' = [op |-> "getChainIds", result |-> Returned(getChainIds(fs))]
  /\ UNCHANGED <<fs, stats, idx, pc, exitCode, calls, prober, tool>>

\* the caller has taken the result
ApiReturn ==
  /\ api.op # "idle"
  /\ api' = ApiIdle
  /\ UNCHANGED <<fs, stats, idx, pc, exitCode, calls, prober, tool>>

\* the directory names, documents and query arguments of the lookups
ApiDirNames == {<<"1">>, <<"1", "0">>, <<"x">>}

ApiTokens ==
  {NullEntry} \cup
  {Plain(Num(<<"1">>), a) : a \in {Str(ChecksumA), Str(LowerA), Str(ChecksumB), Num(<<"5">>), Undef}}

ApiDocs ==
  {Doc(ts) : ts \in SeqsUpTo(ApiTokens, MaxApiTokens)}
  \cup {AbsentDoc, UnreadableDoc, BadJsonDoc, NoTokensDoc}

ApiFileSystems ==
  {<<>>}
  \cup {<< Dir(n, c, Doc(<<>>), NoLogos) >> : n \in ApiDirNames, c \in ApiDocs}
  \cup {<< Dir(<<"1">>, Doc(<<>>), Doc(<<>>), NoLogos), Dir(n, Doc(<<>>), Doc(<<>>), NoLogos) >> :
          n \in ApiDirNames \ {<<"1">>}}

ApiChainIds == {Num(<<"1">>), Num(<<"1", "0">>), Num(<<"2">>)}

ApiAddresses == {LowerA, ChecksumA, UpperA, LowerB, <<>>}

NextApi ==
  \/ \E c \in ApiChainIds, a \in ApiAddresses : CallGetTokenByAddress(c, a)
  \/ CallGetChainIds
  \/ ApiReturn

InitApi == fs \in ApiFileSystems /\ Start
SpecApi == InitApi /\ [][NextApi]_vars

(***************************************************************************)
(* The logo-URL prober (validate-logo-urls.js): processBatch, checkUrl and *)
(* scheduleRetry on Node's event loop.  prober holds the list of URLs, the *)
(* batch under way, which checkUrl promises of the list are settled, and,  *)
(* per URL of the list and retryCount, the numbers of requests in flight,  *)
(* of destroyed requests whose 'error' event is still to be emitted, and   *)
(* of pending setTimeout callbacks; issued counts the requests made on     *)
(* behalf of each URL, value is what a settled promise was resolved with,  *)
(* and brokenUrls is the counter of stats that decides the exit code.      *)
(***************************************************************************)
Slots == 1..MaxUrls
Levels == 0..MAX_RETRIES
NoRequests == [k \in Slots \X Levels |-> 0]

\* the number of requests, timers or events of a table (MAX_RETRIES is 2)
Total(table) ==
  LET S[u \in 0..MaxUrls] ==
        IF u = 0 THEN 0
        ELSE S[u - 1] + table[<<u, 0>>] + table[<<u, 1>>] + table[<<u, 2>>]
  IN  S[MaxUrls]

\* the slots of the batch that starts at index i: urls.slice(i, i + CONCURRENT_REQUESTS)
Batch(p) == {u \in DOMAIN p.urls : p.i <= u /\ u < p.i + CONCURRENT_REQUESTS}

\* resolve(value) of the promise checkUrl returned for the URL of the list; a
\* promise is settled once, later calls of resolve have no effect
Resolve(p, u, value) ==
  IF p.settled[u] THEN p ELSE [p EXCEPT !.settled[u] = TRUE, !.value[u] = value]

\* checkUrl(url, retryCount) up to requestModule.get: a URL that is not HTTP
\* resolves with true at once, an HTTP URL puts one request in flight
checkUrl(p, u, retryCount) ==
  IF p.urls[u] # "http"
    THEN Resolve(p, u, TRUE)
    ELSE [p EXCEPT !.inflight[<<u, retryCount>>] = @ + 1, !.issued[u] = @ + 1]

\* batch.map(url => checkUrl(url)): the calls for the slots from u on
MapBatch(p) ==
  LET M[u \in 0..MaxUrls] ==
        IF u = 0 THEN p
        ELSE IF u \in Batch(p) THEN checkUrl(M[u - 1], u, 0)
        ELSE M[u - 1]
  IN  M[MaxUrls]

\* scheduleRetry(url, retryCount, resolve): a timer for checkUrl(url, retryCount + 1)
scheduleRetry(p, u, retryCount) ==
  [p EXCEPT !.timers[<<u, retryCount + 1>>] = @ + 1]

\* stats.brokenUrls++; the counter is followed up to MaxBroken, the values
\* above it are not told apart (main tests only stats.brokenUrls > 0)
Broken(p) == [p EXCEPT !.brokenUrls = IF @ < MaxBroken THEN @ + 1 ELSE @]

\* the handlers without the else branch: a request that fails at the last
\* retry leaves the promise unsettled
RetryOrForget(p, u, retryCount) ==
  IF retryCount < MAX_RETRIES
    THEN scheduleRetry(Broken(p), u, retryCount)
    ELSE Broken(p)

\* the handlers of 'error' and 'timeout' after recordError: the attempt is
\* counted as a broken URL, then retried or given up
RetryOrGiveUp(p, u, retryCount) ==
  IF retryCount < MAX_RETRIES
    THEN scheduleRetry(Broken(p), u, retryCount)
    ELSE Resolve(Broken(p), u, FALSE)

\* the status codes a server answers with; 301 carries a location header
StatusCodes == {200, 301, 404, 429, 500}

\* response.on('end'): the handler for a status code
OnResponseEnd(p, u, retryCount, status) ==
  IF status = 200 THEN Resolve(p, u, TRUE)
  ELSE IF status >= 300 /\ status < 400
    THEN IF retryCount < MAX_RETRIES
           THEN [p EXCEPT !.timers[<<u, retryCount + 1>>] = @ + 1]
           ELSE Resolve(Broken(p), u, FALSE)
  ELSE IF retryCount < MAX_RETRIES /\ (status >= 500 \/ status = 429)
    THEN scheduleRetry(Broken(p), u, retryCount)
  ELSE Resolve(Broken(p), u, FALSE)

\* a request in flight leaves the table
Closed(p, u, retryCount) == [p EXCEPT !.inflight[<<u, retryCount>>] = @ - 1]

\* processBatch(urls) is called: the first batch is about to be mapped
processBatch(urls) ==
  /\ prober.phase = "off"
  /\ prober' = [phase |-> "start", urls |-> urls, i |-> 1,
                settled |-> [u \in Slots |-> FALSE], value |-> [u \in Slots |-> FALSE],
                brokenUrls |-> 0,
                inflight |-> NoRequests, destroyed |-> NoRequests, timers |-> NoRequests,
                issued |-> [u \in Slots |-> 0], clientErrorRetried |-> FALSE]
  /\ UNCHANGED <<fs, stats, idx, pc, exitCode, calls, api, tool>>

\* the loop of processBatch: a batch is mapped to checkUrl promises, or the
\* loop ends when no URL is left
StartBatch ==
  /\ prober.phase = "start"
  /\ prober' = IF prober.i > Len(prober.urls)
                 THEN [prober EXCEPT !.phase = "done"]
                 ELSE [MapBatch(prober) EXCEPT !.phase = "waiting"]
  /\ UNCHANGED <<fs, stats, idx, pc, exitCode, calls, api, tool>>

\* await Promise.all(...) returns; sleep between batches when URLs are left
BatchSettled ==
  /\ prober.phase = "waiting"
  /\ \A u \in Batch(prober) : prober.settled[u]
  /\ prober' = [prober EXCEPT
                  !.phase = IF prober.i + CONCURRENT_REQUESTS < Len(prober.urls) + 1
                              THEN "sleeping" ELSE "start",
                  !.i = IF prober.i + CONCURRENT_REQUESTS < Len(prober.urls) + 1
                          THEN @ ELSE @ + CONCURRENT_REQUESTS]
  /\ UNCHANGED <<fs, stats, idx, pc, exitCode, calls, api, tool>>

\* sleep(DELAY_BETWEEN_BATCHES_MS) is over: i += CONCURRENT_REQUESTS
SleepOver ==
  /\ prober.phase = "sleeping"
  /\ prober' = [prober EXCEPT !.phase = "start", !.i = @ + CONCURRENT_REQUESTS]
  /\ UNCHANGED <<fs, stats, idx, pc, exitCode, calls, api, tool>>

\* a response to a request in flight has ended
ResponseEnd(u, retryCount, status) ==
  /\ prober.phase \notin {"off", "exited"}
  /\ prober.inflight[<<u, retryCount>>] > 0
  /\ prober' = [OnResponseEnd(Closed(prober, u, retryCount), u, retryCount, status)
                  EXCEPT !.clientErrorRetried =
                           @ \/ (/\ status >= 400 /\ status < 500 /\ status # 429
                                 /\ OnResponseEnd(prober, u, retryCount, status).timers
                                      # prober.timers)]
  /\ UNCHANGED <<fs, stats, idx, pc, exitCode, calls, api, tool>>

\* request.on('error'): a request in flight fails
RequestError(u, retryCount) ==
  /\ prober.phase \notin {"off", "exited"}
  /\ prober.inflight[<<u, retryCount>>] > 0
  /\ prober' = RetryOrGiveUp(Closed(prober, u, retryCount), u, retryCount)
  /\ UNCHANGED <<fs, stats, idx, pc, exitCode, calls, api, tool>>

\* request.on('timeout'): the handler destroys the request, which will emit
\* 'error' (socket hang up), and retries or gives up
RequestTimeout(u, retryCount) ==
  /\ prober.phase \notin {"off", "exited"}
  /\ prober.inflight[<<u, retryCount>>] > 0
  /\ prober' = [RetryOrGiveUp(Closed(prober, u, retryCount), u, retryCount)
                  EXCEPT !.destroyed[<<u, retryCount>>] = @ + 1]
  /\ UNCHANGED <<fs, stats, idx, pc, exitCode, calls, api, tool>>

\* request.on('error') of a request that request.destroy() closed
DestroyedError(u, retryCount) ==
  /\ prober.phase \notin {"off", "exited"}
  /\ prober.destroyed[<<u, retryCount>>] > 0
  /\ prober' = RetryOrGiveUp([prober EXCEPT !.destroyed[<<u, retryCount>>] = @ - 1],
                             u, retryCount)
  /\ UNCHANGED <<fs, stats, idx, pc, exitCode, calls, api, tool>>

\* a setTimeout callback of scheduleRetry or of the redirect branch runs:
\* checkUrl(url, retryCount).then(resolve)
TimerFires(u, retryCount) ==
  /\ prober.phase \notin {"off", "exited"}
  /\ prober.timers[<<u, retryCount>>] > 0
  /\ prober' = checkUrl([prober EXCEPT !.timers[<<u, retryCount>>] = @ - 1], u, retryCount)
  /\ UNCHANGED <<fs, stats, idx, pc, exitCode, calls, api, tool>>

\* validateLocalLogoFiles(allTokens): stats.missingLocalFiles counts the
\* tokens with a local logoURI whose logo file does not exist
validateLocalLogoFiles(p) == Cardinality({u \in DOMAIN p.urls : p.urls[u] = "missing"})

\* main after await processBatch(uniqueLogoURIs): the local files are
\* validated, the summary is printed and the process exits
MainExit ==
  /\ prober.phase = "done"
  /\ prober' = [prober EXCEPT !.phase = "exited"]
  /\ exitCode' = IF prober.brokenUrls > 0 \/ validateLocalLogoFiles(prober) > 0
                   THEN 1 ELSE 0
  /\ UNCHANGED <<fs, stats, idx, pc, calls, api, tool>>

\* the lists of logoURIs: HTTP URLs, local paths whose logo file exists and
\* local paths whose logo file is missing
UrlLists == UNION {[1..n -> {"http", "local", "missing"}] : n \in 0..MaxUrls}

NextProber ==
  \/ \E urls \in UrlLists : processBatch(urls)
  \/ StartBatch
  \/ BatchSettled
  \/ SleepOver
  \/ \E u \in Slots, r \in Levels, status \in StatusCodes : ResponseEnd(u, r, status)
  \/ \E u \in Slots, r \in Levels : RequestError(u, r)
  \/ \E u \in Slots, r \in Levels : RequestTimeout(u, r)
  \/ \E u \in Slots, r \in Levels : DestroyedError(u, r)
  \/ \E u \in Slots, r \in Levels : TimerFires(u, r)
  \/ MainExit

InitProber == fs = <<>> /\ Start
SpecProber == InitProber /\ [][NextProber]_vars

\* the event loop runs every callback that is due: a request in flight gets
\* its response, error or timeout, a timer fires, an awaited promise resumes
SpecProberFair == SpecProber /\ WF_vars(NextProber)

(***************************************************************************)
(* The token-list normalizers (update-token-lists.js and its second        *)
(* version, part_002) and the logo-file renamers (fix-logo-addresses.js    *)
(* and part_001).  They work on the tree under assets/, which is fs; tool  *)
(* holds the script under way, its --dry-run flag, the tree it started     *)
(* from, the files it still has to visit and its stats counters.  In the   *)
(* logoURIs of this part "/logos/", "githubusercontent.com" and ".png" are *)
(* one element of the string each.                                         *)
(***************************************************************************)
Normalizers == {"update-token-lists.js", "part_002"}
Renamers == {"fix-logo-addresses.js", "part_001"}

\* /^\d+$/.test(dir)
IsChainDirName(name) == name # <<>> /\ \A k \in DOMAIN name : name[k] \in DecimalDigits

\* String.prototype.replace(old, new) with a string pattern that occurs in s:
\* the first occurrence is replaced
ReplaceFirst(s, old, new) ==
  LET i == CHOOSE k \in 0..(Len(s) - Len(old)) :
             /\ SubSeq(s, k + 1, k + Len(old)) = old
             /\ \A j \in 0..(k - 1) : SubSeq(s, j + 1, j + Len(old)) # old
  IN  SubSeq(s, 1, i) \o new \o SubSeq(s, i + Len(old) + 1, Len(s))

\* updateLogoURI(logoURI, address) of update-token-lists.js on two strings
updateLogoURI(logoURI, address) ==
  IF Includes(logoURI, address) /\ ToLowerCase(address) # address
    THEN ReplaceFirst(logoURI, address, ToLowerCase(address))
    ELSE logoURI

\* the arrow function of tokenList.tokens.map throws a TypeError: token is
\* null, address.toLowerCase or logoURI.includes is not a function
UpdateThrows(token) ==
  \/ token.entry = "null"
  \/ Truthy(token.address) /\ token.address.t # "str"
  \/ Truthy(token.address) /\ Truthy(token.logoURI) /\ token.logoURI.t # "str"

\* the token the arrow function of tokenList.tokens.map returns
UpdatedToken(token) ==
  IF ~Truthy(token.address) THEN token
  ELSE [token EXCEPT
          !.address = Str(ToLowerCase(@.v)),
          !.logoURI = IF Truthy(@) THEN Str(updateLogoURI(@.v, token.address.v)) ELSE @]

\* the tokens the map callback counts in stats before it returns or throws:
\* those before the first token that throws, and, for stats.addressesChanged,
\* that token too when it throws at updateLogoURI, after the address was counted
Counted(doc, withThrowing) ==
  IF ~doc.readable \/ ~doc.parses \/ ~doc.hasTokens THEN {}
  ELSE {k \in DOMAIN doc.tokens :
          /\ \A j \in 1..(k - 1) : ~UpdateThrows(doc.tokens[j])
          /\ IF UpdateThrows(doc.tokens[k])
               THEN /\ withThrowing
                    /\ doc.tokens[k].entry = "object"
                    /\ doc.tokens[k].address.t = "str"
               ELSE TRUE}

\* the additions of processTokenList to stats.addressesChanged
AddressesChanged(doc) ==
  Cardinality({k \in Counted(doc, TRUE) :
                 /\ Truthy(doc.tokens[k].address)
                 /\ ToLowerCase(doc.tokens[k].address.v) # doc.tokens[k].address.v})

\* the additions of processTokenList to stats.logoURIsChanged
LogoURIsChanged(doc) ==
  Cardinality({k \in Counted(doc, FALSE) :
                 UpdatedToken(doc.tokens[k]).logoURI # doc.tokens[k].logoURI})

\* what a script did to one file: the file afterwards, and its additions to
\* stats.errors and to the counter of modifications
Outcome(file, errors, changed) == [file |-> file, errors |-> errors, changed |-> changed]

\* fs.writeFileSync(filePath, JSON.stringify(tokenList, null, 2), 'utf8')
Written(doc, tokens) == [doc EXCEPT !.tokens = tokens, !.indented = TRUE]

\* processTokenList of update-token-lists.js with a write whatever DRY_RUN is
processTokenListAlwaysWrites(doc, dryRun) ==
  IF ~doc.readable \/ ~doc.parses THEN Outcome(doc, 1, 0)
  ELSE IF ~doc.hasTokens THEN Outcome(doc, 0, 0)
  ELSE IF \E k \in DOMAIN doc.tokens : UpdateThrows(doc.tokens[k]) THEN Outcome(doc, 1, 0)
  ELSE IF \E k \in DOMAIN doc.tokens : UpdatedToken(doc.tokens[k]) # doc.tokens[k]
    THEN Outcome(Written(doc, [k \in DOMAIN doc.tokens |-> UpdatedToken(doc.tokens[k])]), 0, 1)
  ELSE Outcome(doc, 0, 0)

\* processTokenList(filePath) of update-token-lists.js
processTokenList(doc, dryRun) ==
  IF ~doc.readable \/ ~doc.parses THEN Outcome(doc, 1, 0)
  ELSE IF ~doc.hasTokens THEN Outcome(doc, 0, 0)
  ELSE IF \E k \in DOMAIN doc.tokens : UpdateThrows(doc.tokens[k]) THEN Outcome(doc, 1, 0)
  ELSE IF \E k \in DOMAIN doc.tokens : UpdatedToken(doc.tokens[k]) # doc.tokens[k]
    THEN Outcome(IF dryRun THEN doc
                 ELSE Written(doc, [k \in DOMAIN doc.tokens |-> UpdatedToken(doc.tokens[k])]),
                 0, 1)
  ELSE Outcome(doc, 0, 0)

\* normalizeAddress(address) of part_002 on a JSON value
normalizeAddress(address) ==
  IF ~Truthy(address) \/ address.t # "str" THEN address ELSE Str(ToLowerCase(address.v))

\* the elements of a logoURI that end with a slash
SlashEnded == {"/", "/logos/"}

\* the places where /<slash>([0-9a-fA-F]{40})\.png/ matches: a slash, AddrLen
\* hex characters and ".png"
AddressMatches(uri, slashes) ==
  {i \in 1..(Len(uri) - AddrLen - 1) :
     /\ uri[i] \in slashes
     /\ \A k \in 1..AddrLen : uri[i + k] \in HexChars
     /\ uri[i + AddrLen + 1] = ".png"}

\* the leftmost match of the regular expression
Leftmost(matches) == CHOOSE i \in matches : \A j \in matches : i <= j

\* logoURI.replace(`/${address}.png`, `/${lowercaseAddress}.png`) for the
\* address matched at i: the first occurrence of the pattern is the match
LowerAt(uri, i) ==
  [k \in DOMAIN uri |-> IF i < k /\ k <= i + AddrLen THEN ToLowerChar(uri[k]) ELSE uri[k]]

\* normalizeLogoURI(logoURI) of part_002 on a string
normalizeLogoURI(uri) ==
  IF Includes(uri, <<"githubusercontent.com">>) /\ AddressMatches(uri, SlashEnded) # {}
    THEN LowerAt(uri, Leftmost(AddressMatches(uri, SlashEnded)))
  ELSE IF Includes(uri, <<"/logos/">>) /\ AddressMatches(uri, {"/logos/"}) # {}
    THEN LowerAt(uri, Leftmost(AddressMatches(uri, {"/logos/"})))
  ELSE uri

\* the token after one turn of the for loop of processTokenListFile (live run)
NormalizedToken(token) ==
  [token EXCEPT
     !.address = normalizeAddress(@),
     !.logoURI = IF Truthy(@) /\ @.t = "str" THEN Str(normalizeLogoURI(@.v)) ELSE @]

\* processTokenListFile(filePath) of part_002; token.address of a null entry
\* throws into the outer catch
processTokenListFile(doc, dryRun) ==
  IF ~doc.readable \/ ~doc.parses THEN Outcome(doc, 1, 0)
  ELSE IF ~doc.hasTokens THEN Outcome(doc, 0, 0)
  ELSE IF \E k \in DOMAIN doc.tokens : doc.tokens[k].entry = "null" THEN Outcome(doc, 1, 0)
  ELSE IF \E k \in DOMAIN doc.tokens : NormalizedToken(doc.tokens[k]) # doc.tokens[k]
    THEN Outcome(IF dryRun THEN doc
                 ELSE Written(doc, [k \in DOMAIN doc.tokens |-> NormalizedToken(doc.tokens[k])]),
                 0,
                 Cardinality({k \in DOMAIN doc.tokens :
                                NormalizedToken(doc.tokens[k]) # doc.tokens[k]}))
  ELSE Outcome(doc, 0, 0)

\* path.parse(filename).name: the file name without its extension
Stem(filename) == SubSeq(filename, 1, Len(filename) - 1)

\* file.endsWith('.png')
EndsWithPng(filename) == filename # <<>> /\ filename[Len(filename)] = ".png"

\* hasUppercase(filename) of fix-logo-addresses.js
hasUppercase(filename) == ToLowerCase(Stem(filename)) # Stem(filename)

\* fs.renameSync(oldPath, newPath) inside a logos directory
RenameSync(files, old, new) == [n \in DOMAIN files |->
                                  IF n = new THEN files[old]
                                  ELSE IF n = old THEN "absent" ELSE files[n]]

\* one turn of the loop of processLogosDirectory (fix-logo-addresses.js) for a
\* file name that readdirSync returned
processLogosDirectory(files, file, dryRun) ==
  IF ~EndsWithPng(ToLowerCase(file)) \/ ~hasUppercase(file) THEN Outcome(files, 0, 0)
  ELSE IF dryRun THEN Outcome(files, 0, 1)
  ELSE IF files[file] = "absent" THEN Outcome(files, 1, 0)
  ELSE Outcome(RenameSync(files, file, ToLowerCase(file)), 0, 1)

\* one turn of the loop of processLogoDirectory (part_001) for a file name that
\* readdirSync returned
processLogoDirectory(files, file, dryRun) ==
  IF ~EndsWithPng(file) \/ file = ToLowerCase(file) THEN Outcome(files, 0, 0)
  ELSE IF ToLowerCase(Stem(file)) = Stem(file) THEN Outcome(files, 0, 0)
  ELSE IF dryRun THEN Outcome(files, 0, 1)
  ELSE IF files[file] = "absent" THEN Outcome(files, 1, 0)
  ELSE Outcome(RenameSync(files, file, ToLowerCase(Stem(file)) \o <<".png">>), 0, 1)

\* the JSON files a normalizer visits: update-token-lists.js takes the chain
\* directories with numeric names, part_002 every directory under assets/
TokenListFiles(script, fsys) ==
  {item \in [dir : DOMAIN fsys, file : {"common", "popular"}] :
     /\ fsys[item.dir][item.file].exists
     /\ script = "part_002" \/ IsChainDirName(fsys[item.dir].name)}

\* the logo files a renamer visits: fix-logo-addresses.js takes every
\* directory under assets/, part_001 the chain directories with numeric names
LogoFiles(script, fsys) ==
  UNION {{[dir |-> i, file |-> n] : n \in {m \in DOMAIN fsys[i].logos.files :
                                             fsys[i].logos.files[m] # "absent"}} :
           i \in {j \in DOMAIN fsys :
                    /\ fsys[j].logos.exists
                    /\ script = "fix-logo-addresses.js" \/ IsChainDirName(fsys[j].name)}}

\* the tool's state after one file: the file is off the list, stats move on
Visited(item, r) ==
  [tool EXCEPT !.todo = @ \ {item}, !.errors = @ + r.errors, !.changed = @ + r.changed]

\* node <script> [--dry-run]: main() up to the first file
RunScript(script, dryRun) ==
  /\ tool = ToolOff
  /\ tool' = [script |-> script, dryRun |-> dryRun, phase |-> "run", before |-> fs,
              todo |-> IF script \in Normalizers THEN TokenListFiles(script, fs)
                       ELSE LogoFiles(script, fs),
              errors |-> 0, changed |-> 0, addressesChanged |-> 0, logoURIsChanged |-> 0,
              run |-> 1]
  /\ UNCHANGED <<fs, stats, idx, pc, exitCode, calls, api, prober>>

\* the same script is started once more, live, on the tree its live run left
RunAgain ==
  /\ tool.script # "off"
  /\ tool.phase = "done"
  /\ ~tool.dryRun
  /\ tool.run = 1
  /\ tool' = [tool EXCEPT
                !.phase = "run", !.before = fs,
                !.todo = IF tool.script \in Normalizers THEN TokenListFiles(tool.script, fs)
                         ELSE LogoFiles(tool.script, fs),
                !.errors = 0, !.changed = 0, !.addressesChanged = 0, !.logoURIsChanged = 0,
                !.run = 2]
  /\ UNCHANGED <<fs, stats, idx, pc, exitCode, calls, api, prober>>

\* update-token-lists.js visits one token list
ProcessTokenList ==
  /\ tool.script = "update-token-lists.js"
  /\ \E item \in tool.todo :
       \E r \in {processTokenList(fs[item.dir][item.file], tool.dryRun)} :
         /\ fs' = [fs EXCEPT ![item.dir][item.file] = r.file]
         /\ tool' = [Visited(item, r) EXCEPT
                       !.addressesChanged = @ + AddressesChanged(fs[item.dir][item.file]),
                       !.logoURIsChanged = @ + LogoURIsChanged(fs[item.dir][item.file])]
  /\ UNCHANGED <<stats, idx, pc, exitCode, calls, api, prober>>

\* part_002 visits one token list
ProcessTokenListFile ==
  /\ tool.script = "part_002"
  /\ \E item \in tool.todo :
       \E r \in {processTokenListFile(fs[item.dir][item.file], tool.dryRun)} :
         /\ fs' = [fs EXCEPT ![item.dir][item.file] = r.file]
         /\ tool' = Visited(item, r)
  /\ UNCHANGED <<stats, idx, pc, exitCode, calls, api, prober>>

\* fix-logo-addresses.js visits one logo file
ProcessLogosDirectory ==
  /\ tool.script = "fix-logo-addresses.js"
  /\ \E item \in tool.todo :
       \E r \in {processLogosDirectory(fs[item.dir].logos.files, item.file, tool.dryRun)} :
         /\ fs' = [fs EXCEPT ![item.dir].logos.files = r.file]
         /\ tool' = Visited(item, r)
  /\ UNCHANGED <<stats, idx, pc, exitCode, calls, api, prober>>

\* part_001 visits one logo file
ProcessLogoDirectory ==
  /\ tool.script = "part_001"
  /\ \E item \in tool.todo :
       \E r \in {processLogoDirectory(fs[item.dir].logos.files, item.file, tool.dryRun)} :
         /\ fs' = [fs EXCEPT ![item.dir].logos.files = r.file]
         /\ tool' = Visited(item, r)
  /\ UNCHANGED <<stats, idx, pc, exitCode, calls, api, prober>>

\* the summary of main() after the last file
ToolSummary ==
  /\ tool.script # "off"
  /\ tool.phase = "run"
  /\ tool.todo = {}
  /\ tool' = [tool EXCEPT !.phase = "done"]
  /\ UNCHANGED <<fs, stats, idx, pc, exitCode, calls, api, prober>>

\* logoURIs that embed an address after /logos/
LogosURI(body) == <<".", "/logos/">> \o body \o <<".png">>
RawURI(body) ==
  <<"http", "s://raw.", "githubusercontent.com",
    "/First-Point/cosmohub-token-list/main/assets/1", "/logos/">> \o body \o <<".png">>

ToolAddresses == {Str(LowerA), Str(ChecksumA), Num(<<"5">>), Undef}

ToolLogoURIs ==
  {Str(RemoteURI), Str(LogosURI(LowerA)), Str(LogosURI(ChecksumA)),
   Str(LogosURI(HexBody(ChecksumA))), Str(RawURI(ChecksumA)), Num(<<"5">>), Undef}

ToolTokens ==
  {NullEntry} \cup
  {Token(Num(Chain1), a, Str(<<"Test">>), Str(<<"TST">>), Num(<<"18">>), l) :
     a \in ToolAddresses, l \in ToolLogoURIs}

ToolDocs ==
  {Doc(ts) : ts \in SeqsUpTo(ToolTokens, MaxToolTokens)} \cup
  {CompactDoc(<<Local(Chain1, LowerA, LogoNameA)>>), UnreadableDoc, BadJsonDoc, NoTokensDoc}

\* the names of logo files: an address in lowercase, in checksum case and in
\* uppercase, a file that is no PNG, and a PNG with its extension in uppercase
ToolLogoNames ==
  {LogoNameA, ChecksumA \o <<".png">>, UpperA \o <<".png">>, ChecksumA \o <<".svg">>,
   LowerA \o <<".PNG">>}

ToolLogos ==
  {[exists |-> FALSE, files |-> [n \in ToolLogoNames |-> "absent"]]} \cup
  {[exists |-> TRUE, files |-> f] : f \in [ToolLogoNames -> {"absent", "png"}]}

\* trees that vary in their token lists, and trees that vary in their logos
ToolFileSystems ==
  {<< Dir(name, c, p, [exists |-> TRUE, files |-> [n \in ToolLogoNames |-> "png"]]) >> :
     name \in {Chain1, <<"x">>}, c \in ToolDocs,
     p \in {AbsentDoc, Doc(<<Local(Chain1, ChecksumA, ChecksumA \o <<".png">>)>>)}} \cup
  {<< Dir(name, Doc(<<Local(Chain1, ChecksumA, LogoNameA)>>), AbsentDoc, l) >> :
     name \in {Chain1, <<"x">>}, l \in ToolLogos}

NextTool ==
  \/ \E script \in Normalizers \cup Renamers, dryRun \in BOOLEAN : RunScript(script, dryRun)
  \/ ProcessTokenList
  \/ ProcessTokenListFile
  \/ ProcessLogosDirectory
  \/ ProcessLogoDirectory
  \/ ToolSummary
  \/ RunAgain

InitTool == fs \in ToolFileSystems /\ Start
SpecTool == InitTool /\ [][NextTool]_vars

(***************************************************************************)
(* The logo file size validator (part_003).  The logos directories of its  *)
(* trees carry the size in bytes of every file; tool holds the files still *)
(* to visit and stats.oversizedFiles with the files of stats.errors.       *)
(***************************************************************************)
\* const MAX_FILE_SIZE_KB = 100
MAX_FILE_SIZE_KB == 100
\* const MAX_FILE_SIZE_BYTES = MAX_FILE_SIZE_KB * 1024
MAX_FILE_SIZE_BYTES == MAX_FILE_SIZE_KB * 1024

\* getFileSizeKB(filePath) in tenths of a KB: Math.round(size / 1024 * 10),
\* which getFileSizeKB divides by 10
getFileSizeKB(size) == (size * 10 + 512) \div 1024

\* fileSizeKB > MAX_FILE_SIZE_KB
ExceedsLimit(size) == getFileSizeKB(size) > MAX_FILE_SIZE_KB * 10

\* main() of part_003 up to the first file
RunSizeValidator ==
  /\ tool = ToolOff
  /\ tool' = [script |-> "part_003", phase |-> "run", todo |-> LogoFiles("part_003", fs),
              oversizedFiles |-> 0, errors |-> {}]
  /\ UNCHANGED <<fs, stats, idx, pc, exitCode, calls, api, prober>>

\* one turn of the loop of validateLogoDirectory for a file readdirSync returned
ValidateLogoSize ==
  /\ tool.script = "part_003"
  /\ \E item \in tool.todo :
       tool' = IF EndsWithPng(item.file) /\ ExceedsLimit(fs[item.dir].logos.sizes[item.file])
                 THEN [tool EXCEPT !.todo = @ \ {item}, !.oversizedFiles = @ + 1,
                                   !.errors = @ \cup {item}]
                 ELSE [tool EXCEPT !.todo = @ \ {item}]
  /\ UNCHANGED <<fs, stats, idx, pc, exitCode, calls, api, prober>>

\* the summary of main(): process.exit(1) when oversized files were found
SizeSummary ==
  /\ tool.script = "part_003"
  /\ tool.phase = "run"
  /\ tool.todo = {}
  /\ tool' = [tool EXCEPT !.phase = "done"]
  /\ exitCode' = IF tool.oversizedFiles > 0 THEN 1 ELSE 0
  /\ UNCHANGED <<fs, stats, idx, pc, calls, api, prober>>

\* sizes in bytes around the limit; a name of size 0 is no file of the directory
FileSizes == {0, 102400, 102401, 102451, 102452, 204800}

SizedNames == {LogoNameA, LogoNameB, LowerA \o <<".svg">>}

\* logos directories whose files have sizes
SizedLogos ==
  {[exists |-> e, files |-> [n \in SizedNames |-> IF s[n] = 0 THEN "absent" ELSE "png"],
    sizes |-> s] : e \in BOOLEAN, s \in [SizedNames -> FileSizes]}

SizedFileSystems ==
  {<< Dir(name, AbsentDoc, AbsentDoc, l) >> : name \in {Chain1, <<"x">>}, l \in SizedLogos}

NextSize == RunSizeValidator \/ ValidateLogoSize \/ SizeSummary

InitSize == fs \in SizedFileSystems /\ Start
SpecSize == InitSize /\ [][NextSize]_vars

(***************************************************************************)
(* Helpers of the properties.                                              *)
(***************************************************************************)
CommonPath(i) == FilePath(fs[i].name, "common.json")
PopularPath(i) == FilePath(fs[i].name, "popular.json")

\* the violation records of a file, in the order they were appended
RecordsOf(file) == SelectSeq(stats.errors, LAMBDA r : r.file = file)

\* the records of a file that carry the given headline as first atom of a message
RecordsWith(file, headline) ==
  SelectSeq(stats.errors,
            LAMBDA r : r.file = file /\ \E k \in DOMAIN r.errors : r.errors[k][1] = headline)

\* two strings are equal ignoring letter case
SameIgnoringCase(a, b) == ToLowerCase(a) = ToLowerCase(b)

\* C1: whenever the run ends with exit code 0, every chain directory has both
\* common.json and popular.json, and every address of popular.json equals,
\* ignoring case, the address of some token of the same chain's common.json.
PassVerdictSound ==
  (pc = "done" /\ exitCode = 0) =>
    \A i \in DOMAIN fs :
      /\ fs[i].common.exists
      /\ fs[i].popular.exists
      /\ \A k \in DOMAIN fs[i].popular.tokens :
           \E j \in DOMAIN fs[i].common.tokens :
             /\ fs[i].popular.tokens[k].address.t = "str"
             /\ fs[i].common.tokens[j].address.t = "str"
             /\ SameIgnoringCase(fs[i].popular.tokens[k].address.v,
                                 fs[i].common.tokens[j].address.v)

PassVerdictWitness ==
  /\ pc = "done"
  /\ exitCode = 0
  /\ \A i \in DOMAIN fs : fs[i].popular.tokens # <<>>

\* C2: after the pass over all chain directories the exit code is 1 exactly
\* when the invalid-file count, the missing-logo count or the invalid-logo
\* count is greater than zero, and 0 otherwise.
ExitContract ==
  pc = "done" =>
    /\ exitCode \in {0, 1}
    /\ exitCode = 1 <=> (stats.invalidFiles > 0 \/ stats.missingLogoFiles > 0
                           \/ stats.invalidLogoFiles > 0)

ExitContractWitness ==
  /\ pc = "done"
  /\ exitCode = 1
  /\ stats.invalidFiles = 0
  /\ stats.missingLogoFiles = 0
  /\ stats.invalidLogoFiles > 0

\* the required fields a token lacks
MissingFields(t) == {f \in {requiredFields[i] : i \in DOMAIN requiredFields} : t[f].t = "undef"}

\* the records of a file that name a token
TokenRecords(file) == SelectSeq(stats.errors, LAMBDA r : r.file = file /\ r.token # NoToken)

\* common.json of the first chain directory holds exactly one entry, an object,
\* and the directory has been visited
OneTokenVisited ==
  /\ idx > 1
  /\ fs[1].common.exists
  /\ Len(fs[1].common.tokens) = 1
  /\ fs[1].common.tokens[1].entry = "object"

\* C3: a token that lacks at least one required field gets exactly one violation
\* record, holding one missing-field message per missing field and no type,
\* address or logo message, and validateToken leaves the missing-logo and
\* invalid-logo counters as the logo directory check set them.
MissingFieldShortCircuit ==
  (OneTokenVisited /\ MissingFields(fs[1].common.tokens[1]) # {}) =>
    LET t == fs[1].common.tokens[1]
        recs == TokenRecords(CommonPath(1))
    IN  /\ Len(recs) = 1
        /\ Len(recs[1].errors) = Cardinality(MissingFields(t))
        /\ \A f \in MissingFields(t) :
             \E k \in DOMAIN recs[1].errors : recs[1].errors[k] = <<"Missing required field", f>>
        /\ \A k \in DOMAIN recs[1].errors : recs[1].errors[k][1] = "Missing required field"
        /\ stats.missingLogoFiles = 0
        /\ stats.invalidLogoFiles = validateLogoDirectory(fs[1].name, fs[1].logos).invalidCount

MissingFieldWitness ==
  /\ OneTokenVisited
  /\ fs[1].common.tokens[1].chainId = Undef
  /\ fs[1].common.tokens[1].name = Undef
  /\ fs[1].common.tokens[1].address = Str(LowerA)
  /\ fs[1].common.tokens[1].decimals = Str(<<"18">>)
  /\ fs[1].common.tokens[1].logoURI = Str(RelativeURI(LogoNameA))
  /\ fs[1].logos.files[LogoNameA] = "absent"
  /\ Len(TokenRecords(CommonPath(1))) = 1

\* the indices of the entries of a tokens array
Indices(tokens) == [k \in DOMAIN tokens |-> k]

\* entry k repeats, ignoring case, the non-empty string address of an earlier entry
RepeatsEarlier(tokens, k) ==
  /\ tokens[k].address.t = "str"
  /\ tokens[k].address.v # <<>>
  /\ \E j \in 1..(k - 1) :
       /\ tokens[j].address.t = "str"
       /\ tokens[j].address.v # <<>>
       /\ SameIgnoringCase(tokens[j].address.v, tokens[k].address.v)

\* the literal addresses of the repeated occurrences, in document order
RepeatedLiterals(tokens) ==
  LET ks == SelectSeq(Indices(tokens), LAMBDA k : RepeatsEarlier(tokens, k))
  IN  [m \in DOMAIN ks |-> tokens[ks[m]].address.v]

DuplicateReports(i) == RecordsWith(CommonPath(i), "Duplicate addresses found")

\* C4 as stated: a document with two tokens whose addresses are identical
\* modulo case gets the duplicate-address violation exactly once, and the report
\* names both literal address strings, the first occurrence and the repeated one
\* (stated for the documents validateFile checks to the end).
DuplicateNamesBoth ==
  (idx > 1 /\ ~calls[1].commonAborted) =>
    \A k \in DOMAIN fs[1].common.tokens :
      RepeatsEarlier(fs[1].common.tokens, k) =>
        /\ Len(DuplicateReports(1)) = 1
        /\ Includes(DuplicateReports(1)[1].errors[1], fs[1].common.tokens[k].address.v)
        /\ \A j \in 1..(k - 1) :
             (/\ fs[1].common.tokens[j].address.t = "str"
              /\ SameIgnoringCase(fs[1].common.tokens[j].address.v,
                                  fs[1].common.tokens[k].address.v))
             => Includes(DuplicateReports(1)[1].errors[1], fs[1].common.tokens[j].address.v)

\* C4 amended: a document with two tokens whose non-empty string addresses are
\* identical modulo case gets the duplicate-address violation at most once:
\* exactly once when validateFile checks the document to the end, not at all
\* when it ends in its catch block.  The report names the literal address of
\* every repeated occurrence (each second or later one, in document order) and
\* nothing else: the first occurrence is not named.
DuplicateNamesRepeats ==
  (idx > 1 /\ RepeatedLiterals(fs[1].common.tokens) # <<>>) =>
    /\ Len(DuplicateReports(1)) = IF calls[1].commonAborted THEN 0 ELSE 1
    /\ \A m \in DOMAIN DuplicateReports(1) :
         DuplicateReports(1)[m].errors =
           << <<"Duplicate addresses found">> \o Join(RepeatedLiterals(fs[1].common.tokens)) >>

DuplicateWitness ==
  /\ idx > 1
  /\ Len(fs[1].common.tokens) = 3
  /\ fs[1].common.tokens[1].address = Str(LowerA)
  /\ fs[1].common.tokens[2].address = Str(ChecksumA)
  /\ fs[1].common.tokens[3].address = Str(LowerA)
  /\ Len(DuplicateReports(1)) = 1
  /\ DuplicateReports(1)[1].errors[1] = <<"Duplicate addresses found">> \o ChecksumA \o <<", ">> \o LowerA

\* the literal addresses of popular.json that match no address of common.json
\* ignoring case, in document order
Unmatched(i) ==
  LET ks == SelectSeq(Indices(fs[i].popular.tokens),
                      LAMBDA k : \A j \in DOMAIN fs[i].common.tokens :
                                   ~SameIgnoringCase(fs[i].popular.tokens[k].address.v,
                                                     fs[i].common.tokens[j].address.v))
  IN  [m \in DOMAIN ks |-> fs[i].popular.tokens[ks[m]].address.v]

SubsetReports(i) == RecordsWith(PopularPath(i), "Contains tokens not found in common.json")

BothValid(i) == calls[i].step = "validated" /\ calls[i].commonValid /\ calls[i].popularValid

NoSubsetCascade ==
  \A i \in DOMAIN calls :
    (calls[i].step = "validated" /\ ~(calls[i].commonValid /\ calls[i].popularValid)) =>
      /\ ~calls[i].subsetRan
      /\ SubsetReports(i) = <<>>
      /\ RecordsWith(PopularPath(i), "Error validating popular subset") = <<>>

NoSubsetCascadeWitness ==
  /\ idx > 1
  /\ calls[1].step = "validated"
  /\ ~calls[1].commonValid
  /\ calls[1].popularValid
  /\ fs[1].common.tokens # <<>>
  /\ Unmatched(1) # <<>>
  /\ SubsetReports(1) = <<>>

\* every entry of the tokens array is an object
AllObjects(tokens) == \A k \in DOMAIN tokens : tokens[k].entry = "object"

ChainIdReports(i) == RecordsWith(CommonPath(i), "Multiple chainIds found")

\* C7: a document whose tokens carry two different chainId values gets exactly
\* one chain-ID-mismatch violation, which lists each distinct value once; a
\* document whose tokens all carry the same chainId gets none.
ChainIdMismatchOnce ==
  (idx > 1 /\ fs[1].common.tokens # <<>> /\ AllObjects(fs[1].common.tokens)) =>
    LET ids == {fs[1].common.tokens[k].chainId : k \in DOMAIN fs[1].common.tokens}
    IN  /\ Cardinality(ids) = 2 =>
             /\ Len(ChainIdReports(1)) = 1
             /\ \A c \in ids : Includes(ChainIdReports(1)[1].errors[1], c.v)
        /\ Cardinality(ids) = 1 => Len(ChainIdReports(1)) = 0

\* the address is a string that is no valid address or differs from its
\* checksum form
NotChecksumAddress(a) ==
  /\ a.t = "str"
  /\ ~(MatchesAddressPattern(a.v) /\ a.v = GetAddress(a.v))

\* C8: a token that has all required fields and whose address is a string that
\* is not a valid address, or is valid but differs from its checksum form,
\* gets an address violation, and its file is reported invalid.
ChecksumPolicy ==
  (/\ OneTokenVisited
   /\ MissingFields(fs[1].common.tokens[1]) = {}
   /\ NotChecksumAddress(fs[1].common.tokens[1].address)) =>
    /\ ~calls[1].commonValid
    /\ \E m \in DOMAIN TokenRecords(CommonPath(1)) :
         \E k \in DOMAIN TokenRecords(CommonPath(1))[m].errors :
           TokenRecords(CommonPath(1))[m].errors[k][1] = "address is not a valid checksum address"

\* C9: validation flags every token whose address does not conform to the
\* lowercase standard: a token whose address contains an uppercase character
\* gets a violation.
LowercasePolicy ==
  (/\ OneTokenVisited
   /\ fs[1].common.tokens[1].address.t = "str"
   /\ fs[1].common.tokens[1].address.v # ToLowerCase(fs[1].common.tokens[1].address.v)) =>
    RecordsOf(CommonPath(1)) # <<>>

\* C10: a token whose chainId differs from the numeric name of the chain
\* directory that holds its document is reported as a violation.
ChainIdMatchesDirectory ==
  (OneTokenVisited /\ fs[1].common.tokens[1].chainId # Num(fs[1].name)) =>
    RecordsOf(CommonPath(1)) # <<>>

\* common.json of the first chain directory parses and has a non-empty tokens
\* array, and the directory has been visited
TokensChecked ==
  /\ idx > 1
  /\ calls[1].step = "validated"
  /\ fs[1].common.readable
  /\ fs[1].common.indented
  /\ fs[1].common.parses
  /\ fs[1].common.hasTokens
  /\ fs[1].common.tokens # <<>>

\* C11: for every document that parses and has a non-empty tokens array,
\* validateFile runs the per-token validation on every entry of the array
\* before it returns, whatever the earlier entries are (an entry whose address
\* is present but not a string, or an entry that is not an object, included).
FullPassOverTokens ==
  TokensChecked => calls[1].commonVisited = Len(fs[1].common.tokens)

\* the only chain directory is 1, and its common.json and popular.json hold the
\* same single token: chainId 1, a checksum address, string name and symbol,
\* integer decimals and the logoURI ./logos/<lowercase address>.png
MinimalPair ==
  /\ Len(fs) = 1
  /\ fs[1].name = Chain1
  /\ fs[1].common.exists /\ fs[1].common.readable /\ fs[1].common.parses
  /\ fs[1].common.hasTokens
  /\ fs[1].popular.exists /\ fs[1].popular.readable /\ fs[1].popular.parses
  /\ fs[1].popular.hasTokens
  /\ fs[1].common.tokens = <<Local(Chain1, ChecksumA, LogoNameA)>>
  /\ fs[1].popular.tokens = fs[1].common.tokens

\* both documents are written with 2-space indentation
BothIndented == fs[1].common.indented /\ fs[1].popular.indented

\* the records that report a logo file as missing
MissingLogoRecords ==
  SelectSeq(stats.errors,
            LAMBDA r : \E k \in DOMAIN r.errors : r.errors[k][1] = "Logo file does not exist")

\* C12: in a chain directory whose common.json and popular.json each hold the
\* same single otherwise-valid token with a local logoURI, when the logo file
\* at the derived path does not exist, the run produces exactly one
\* missing-logo-file error (missing-logo count 1) and a failing exit code, and
\* no other violation is reported.
MissingLogoReportedOnce ==
  (/\ pc = "done"
   /\ MinimalPair
   /\ BothIndented
   /\ fs[1].logos.exists
   /\ fs[1].logos.files[LogoNameA] = "absent"
   /\ fs[1].logos.files[LogoNameB] = "absent") =>
    /\ stats.missingLogoFiles = 1
    /\ Len(MissingLogoRecords) = 1
    /\ Len(stats.errors) = 1
    /\ exitCode = 1

\* the logos directory holds a valid PNG named after the lowercase address and
\* nothing else
OnlyMatchingPng ==
  /\ fs[1].logos.exists
  /\ fs[1].logos.files[LogoNameA] = "png"
  /\ fs[1].logos.files[LogoNameB] = "absent"

\* C13 as stated: the minimal valid pair, whatever the layout of the text of the
\* two documents (the document {"tokens":[t]} as written is on one line),
\* together with a valid PNG at the derived path, produces a pass verdict
\* (exit code 0) with zero violation records.
MinimalPairPasses ==
  (pc = "done" /\ MinimalPair /\ OnlyMatchingPng) =>
    /\ exitCode = 0
    /\ stats.errors = <<>>

\* C13 amended: the minimal valid pair, both documents written with 2-space
\* indentation (their text holds a line that starts with two spaces and a
\* double quote), together with a valid PNG at the derived path, produces a
\* pass verdict (exit code 0) with zero violation records.
IndentedMinimalPairPasses ==
  (pc = "done" /\ MinimalPair /\ BothIndented /\ OnlyMatchingPng) =>
    /\ exitCode = 0
    /\ stats.errors = <<>>
    /\ stats.validFiles = 2
    /\ stats.totalFiles = 2

IndentedMinimalPairWitness ==
  /\ pc = "done"
  /\ MinimalPair
  /\ BothIndented
  /\ OnlyMatchingPng
  /\ exitCode = 0
  /\ calls[1].subsetRan

\* the first chain directory failed validation: a document is missing, cannot
\* be read or parsed, holds a bad token, fails the subset check, or the logo
\* directory is bad
FirstChainFailed ==
  /\ Len(calls) >= 1
  /\ \/ calls[1].step # "validated"
     \/ ~calls[1].commonValid
     \/ ~calls[1].popularValid
     \/ ~calls[1].popularSubsetValid
     \/ ~fs[1].logos.exists
     \/ validateLogoDirectory(fs[1].name, fs[1].logos).invalidCount > 0

\* the directories visited so far are the first ones of the discovered list,
\* each once and in order, and a verdict exists only after all of them
VisitedInOrder ==
  /\ Len(calls) = idx - 1
  /\ \A i \in DOMAIN calls : i <= Len(fs) /\ calls[i].chain = fs[i].name
  /\ pc = "loop" => exitCode = -1
  /\ pc = "done" => (Len(calls) = Len(fs) /\ exitCode \in {0, 1})

\* C14: no validation failure in one chain directory stops the run: the run
\* never ends while a discovered chain directory is unvisited, every directory
\* is visited exactly once, in order, the summary and verdict are produced
\* after all the directories have been visited, and no step follows the verdict.
LocalRecovery ==
  /\ []VisitedInOrder
  /\ [][/\ pc = "loop"
        /\ pc' = "done" => (idx > Len(fs) /\ Len(calls) = Len(fs))
        /\ pc' = "loop" => (idx' = idx + 1 /\ Len(calls') = Len(calls) + 1)]_vars

LocalRecoveryWitness ==
  /\ pc = "done"
  /\ Len(fs) >= 2
  /\ FirstChainFailed
  /\ calls[1].commonAborted
  /\ Len(calls) = Len(fs)
  /\ calls[Len(fs)].step = "validated"

\* the common.json of the chain a lookup names loads: fs.readJson returns it
CommonLoads(chainId) ==
  \E i \in DOMAIN fs :
    /\ fs[i].name = chainId.v
    /\ fs[i].common.exists /\ fs[i].common.readable /\ fs[i].common.parses

\* the tokens array of the common.json of a chain, empty when it has none
CommonTokens(chainId) ==
  LET d == fs[CHOOSE i \in DOMAIN fs : fs[i].name = chainId.v].common
  IN  IF d.hasTokens THEN d.tokens ELSE <<>>

\* entry k is a token whose address equals a, ignoring case
Matches(tokens, k, a) ==
  /\ tokens[k].entry = "object"
  /\ tokens[k].address.t = "str"
  /\ SameIgnoringCase(tokens[k].address.v, a)

\* the first token, in document order, whose address equals a ignoring case;
\* null when there is none
FirstMatch(tokens, a) ==
  IF \E k \in DOMAIN tokens : Matches(tokens, k, a)
    THEN tokens[CHOOSE k \in DOMAIN tokens :
                  /\ Matches(tokens, k, a)
                  /\ \A j \in 1..(k - 1) : ~Matches(tokens, j, a)]
    ELSE Null

\* C15: for every chain whose common.json loads and every address string,
\* getTokenByAddress returns the first token of common.json (in document
\* order) whose address equals the query ignoring case, or null when no token
\* matches; the result does not depend on the letter case of the query.
LookupByAddress ==
  (api.op = "getTokenByAddress" /\ CommonLoads(api.chainId)) =>
    /\ ~api.result.threw
    /\ api.result.value = FirstMatch(CommonTokens(api.chainId), api.address)
    /\ api.result = getTokenByAddress(fs, api.chainId, ToUpperCase(api.address))
    /\ api.result = getTokenByAddress(fs, api.chainId, ToLowerCase(api.address))

\* the name of a chain directory is a decimal number
NumericName(name) == name # <<>> /\ \A i \in DOMAIN name : name[i] \in DecimalDigits

\* C16: getChainIds() returns the numeric chain ID of every chain directory
\* assets/<chainId>/, one entry per directory with a numeric name and nothing
\* else; it is non-empty whenever at least one such directory exists.
ChainIdsListed ==
  api.op = "getChainIds" =>
    /\ ~api.result.threw
    /\ \A i \in DOMAIN fs :
         NumericName(fs[i].name) =>
           Cardinality({k \in DOMAIN api.result.value :
                          api.result.value[k] = Num(fs[i].name)}) = 1
    /\ Len(api.result.value) = Cardinality({i \in DOMAIN fs : NumericName(fs[i].name)})

\* processBatch is under way
Probing == prober.phase \in {"start", "waiting", "sleeping"}

\* C17: for every URL passed to checkUrl, the total number of HTTP requests
\* issued on its behalf (the first attempt, the retries after timeouts, request
\* errors, 5xx and 429 responses, and the redirect follow-ups) is at most
\* MAX_RETRIES + 1, and a 4xx response other than 429 is never retried.
RetryCeiling ==
  prober.phase # "off" =>
    /\ \A u \in DOMAIN prober.urls : prober.issued[u] <= MAX_RETRIES + 1
    /\ ~prober.clientErrorRetried

\* C18: at every moment during processBatch the number of HTTP requests in
\* flight is at most CONCURRENT_REQUESTS, under every interleaving of response,
\* error and timeout events.
ConcurrencyCeiling ==
  Probing => Total(prober.inflight) <= CONCURRENT_REQUESTS

\* a normalizer or renamer was started with --dry-run
DryRun == tool.script # "off" /\ tool.dryRun

\* C19: when started with --dry-run, the token-list normalizers and the
\* logo-file renamers write no file and rename no file: the files of the tree
\* and their contents stay those the run started from, for every input tree.
DryRunChangesNothing == DryRun => fs = tool.before

\* a dry run has ended after a file it would have modified or renamed
DryRunWitness == DryRun /\ tool.phase = "done" /\ tool.changed > 0

\* the token lists a normalizer has processed
Processed == TokenListFiles(tool.script, tool.before)

\* every occurrence of the address in the logoURI, whatever its letter case,
\* is in lowercase
EmbedsInLowercase(uri, address) ==
  \A i \in 0..(Len(uri) - Len(address)) :
     SubSeq(ToLowerCase(uri), i + 1, i + Len(address)) = ToLowerCase(address)
       => SubSeq(uri, i + 1, i + Len(address)) = ToLowerCase(address)

\* the postcondition for one token of a token list
TokenNormal(token) ==
  (token.entry = "object" /\ token.address.t = "str") =>
    /\ token.address.v = ToLowerCase(token.address.v)
    /\ (token.logoURI.t = "str" /\ StartsWith(token.address.v, <<"0x">>))
         => EmbedsInLowercase(token.logoURI.v, token.address.v)

\* C20: after a live run of a token-list normalizer that reports no errors, in
\* every processed token list every token address is lowercase and every
\* logoURI that embeds the token's 0x-prefixed address embeds it in lowercase.
NormalizerPostcondition ==
  (/\ tool.script \in Normalizers
   /\ tool.phase = "done"
   /\ ~tool.dryRun
   /\ tool.errors = 0)
  => \A item \in Processed :
       \A k \in DOMAIN fs[item.dir][item.file].tokens :
          TokenNormal(fs[item.dir][item.file].tokens[k])

\* the names in the logos directory of chain directory i that are PNG files
PngLogos(i) ==
  {n \in DOMAIN fs[i].logos.files :
     fs[i].logos.files[n] # "absent" /\ EndsWithPng(ToLowerCase(n))}

\* a live run of the script has ended and reported zero errors
CleanLiveRun(script) ==
  /\ tool.script = script
  /\ tool.phase = "done"
  /\ ~tool.dryRun
  /\ tool.errors = 0

\* C21: after a live run of fix-logo-addresses.js that reports zero errors, no
\* PNG logo file in any assets/<chain>/logos directory has an uppercase
\* character anywhere in its file name.
NoUppercaseLogoName ==
  CleanLiveRun("fix-logo-addresses.js") =>
    \A i \in DOMAIN fs : fs[i].logos.exists =>
       \A n \in PngLogos(i) : n = ToLowerCase(n)

\* the files of the logos directory of chain directory i in a tree
FilesOf(fsys, i) == {n \in DOMAIN fsys[i].logos.files : fsys[i].logos.files[n] # "absent"}

\* C30: the logo renamers never lose a file: a live run leaves the number of
\* files in every logos directory unchanged and never replaces an existing
\* file, also when the directory holds two file names that differ only in
\* letter case.
RenamersLoseNoFile ==
  (tool.script \in Renamers /\ ~tool.dryRun) =>
    \A i \in DOMAIN fs :
       Cardinality(FilesOf(fs, i)) = Cardinality(FilesOf(tool.before, i))

\* a normalizer runs, or has run, live for the second time
SecondRun == tool.script \in Normalizers /\ tool.run = 2

\* C29: running a live normalizer a second time on the tree produced by its
\* first live run changes no token, writes no file and reports zero addresses
\* and zero logo URIs changed.
NormalizerIdempotent ==
  SecondRun =>
    /\ fs = tool.before
    /\ tool.changed = 0
    /\ tool.addressesChanged = 0
    /\ tool.logoURIsChanged = 0

\* the one token of common.json has every required field and a logoURI that is
\* a GitHub URL of this repository for the token's chain
GitHubLogoToken ==
  /\ OneTokenVisited
  /\ MissingFields(fs[1].common.tokens[1]) = {}
  /\ fs[1].common.tokens[1].logoURI.t = "str"
  /\ fs[1].common.tokens[1].chainId.t = "num"
  /\ Includes(fs[1].common.tokens[1].logoURI.v, <<GitHubRepo>>)
  /\ Includes(fs[1].common.tokens[1].logoURI.v,
              <<"assets/">> \o fs[1].common.tokens[1].chainId.v \o <<"/", "logos/">>)

\* some record of the token in common.json holds a message with this headline
LogoMessage(headline) ==
  \E k \in DOMAIN TokenRecords(CommonPath(1)) :
     \E e \in DOMAIN TokenRecords(CommonPath(1))[k].errors :
        TokenRecords(CommonPath(1))[k].errors[e][1] = headline

\* C22: for a token whose logoURI is a GitHub URL of this repository,
\* resolveLogoPath returns the local path starting at assets/, and validateToken
\* then requires that file to exist and to carry a PNG or JPEG signature.
GitHubLogoResolved ==
  GitHubLogoToken =>
    /\ resolveLogoPath(fs[1].common.tokens[1].logoURI.v, fs[1].common.tokens[1].chainId).path
         = LogoPath(fs[1].common.tokens[1].chainId.v, LogoNameA)
    /\ fs[1].logos.files[LogoNameA] = "absent" => LogoMessage("Logo file does not exist")
    /\ fs[1].logos.files[LogoNameA] = "other"
         => LogoMessage("Logo file is not a valid PNG or JPEG image")

\* the .png files of the chain directories that are larger than the limit
LargerThanLimit ==
  {item \in [dir : DOMAIN fs, file : SizedNames] :
     /\ IsChainDirName(fs[item.dir].name)
     /\ fs[item.dir].logos.exists
     /\ fs[item.dir].logos.files[item.file] # "absent"
     /\ EndsWithPng(item.file)
     /\ fs[item.dir].logos.sizes[item.file] > MAX_FILE_SIZE_BYTES}

\* C23: the logo size validator reports a .png file of a logos directory as
\* oversized exactly when its size in bytes exceeds MAX_FILE_SIZE_BYTES =
\* 100 * 1024 = 102400, and the script exits with code 1 if and only if at
\* least one such file exists.
OversizedExactly ==
  (tool.script = "part_003" /\ tool.phase = "done") =>
    /\ tool.errors = LargerThanLimit
    /\ exitCode = 1 <=> LargerThanLimit # {}

\* the chain directories skipped so far because common.json or popular.json is missing
SkippedChains == {i \in DOMAIN calls : calls[i].step # "validated"}

\* the counters of files agree after every chain directory
FilesAccounted ==
  stats.validFiles + stats.invalidFiles = stats.totalFiles + Cardinality(SkippedChains)

\* C24: after each chain directory is processed, validFiles + invalidFiles =
\* totalFiles + (number of chain directories skipped because common.json or
\* popular.json is missing); a chain directory with both files adds exactly 2 to
\* totalFiles and exactly 2 to validFiles + invalidFiles, and a skipped one adds
\* 0 to totalFiles and exactly 1 to invalidFiles.
FileAccounting ==
  /\ []FilesAccounted
  /\ [][idx' = idx + 1 =>
          IF fs[idx].common.exists /\ fs[idx].popular.exists
            THEN /\ stats'.totalFiles = stats.totalFiles + 2
                 /\ stats'.validFiles + stats'.invalidFiles
                      = stats.validFiles + stats.invalidFiles + 2
            ELSE /\ stats'.totalFiles = stats.totalFiles
                 /\ stats'.invalidFiles = stats.invalidFiles + 1
                 /\ stats'.validFiles = stats.validFiles]_vars

\* a skipped chain directory and one with an invalid and a valid file have been counted
FileAccountingWitness ==
  /\ pc = "done"
  /\ SkippedChains # {}
  /\ stats.totalFiles = 2
  /\ stats.validFiles = 1
  /\ stats.invalidFiles = 2

\* C25: whenever the accumulated violation list is non-empty when the summary
\* is printed (including a record added because a chain's logos directory is
\* missing), the validator exits with code 1.
ReportedMeansFailed ==
  (pc = "done" /\ stats.errors # <<>>) => exitCode = 1

\* some violation record names the file
Explained(file) == RecordsOf(file) # <<>>

\* the increments of invalidFiles other than the one for a popular.json that
\* passes validateFile beside an invalid common.json have a record of their own
IncrementsExplained(i) ==
  /\ calls[i].step # "validated" => Explained(DirPath(fs[i].name))
  /\ (calls[i].step = "validated" /\ ~calls[i].commonValid) => Explained(CommonPath(i))
  /\ (calls[i].step = "validated" /\ ~calls[i].popularValid) => Explained(PopularPath(i))
  /\ (calls[i].step = "validated" /\ calls[i].commonValid /\ calls[i].popularValid
        /\ ~calls[i].popularSubsetValid) => Explained(PopularPath(i))

\* popular.json of chain directory i is counted invalid
PopularCountedInvalid(i) ==
  calls[i].step = "validated" /\ ~(calls[i].popularValid /\ calls[i].popularSubsetValid)

\* C26: for each increment of invalidFiles there is at least one
\* violation record whose file field names that document (or, for a missing
\* document, its chain directory); in particular a popular.json counted invalid
\* while common.json is invalid has a record of its own.
InvalidFilesExplained ==
  \A i \in DOMAIN calls :
     /\ IncrementsExplained(i)
     /\ PopularCountedInvalid(i) => Explained(PopularPath(i))

\* what does hold: every increment has a record of its own except the one for
\* a popular.json that passes validateFile while common.json is invalid, which
\* never has one
InvalidFilesExplainedButCascade ==
  \A i \in DOMAIN calls :
     /\ IncrementsExplained(i)
     /\ (PopularCountedInvalid(i) /\ ~calls[i].commonValid /\ calls[i].popularValid)
          => ~Explained(PopularPath(i))

\* every remote URL of the list ultimately returned 200 and no local logo
\* file is missing
AllUrlsWorking ==
  \A u \in DOMAIN prober.urls :
     /\ prober.urls[u] # "missing"
     /\ prober.urls[u] = "http" => (prober.settled[u] /\ prober.value[u])

\* C27: a URL whose request ultimately returns 200, possibly after failed
\* attempts that were retried, is not counted in brokenUrls at the end of the
\* run, so the run exits with code 0 when every remote URL ultimately returns
\* 200 and no local logo file is missing.
WorkingUrlsNotBroken ==
  (prober.phase = "exited" /\ AllUrlsWorking) =>
     (prober.brokenUrls = 0 /\ exitCode = 0)

\* the URLs of the list processBatch has not passed to checkUrl yet
Unmapped(p) ==
  {u \in DOMAIN p.urls :
     u >= p.i + (IF p.phase = "start" THEN 0 ELSE CONCURRENT_REQUESTS)}

\* something is pending for the URL: a request in flight, a retry timer or
\* the 'error' event of a destroyed request
Pending(u) ==
  \E r \in Levels :
     prober.inflight[<<u, r>>] + prober.timers[<<u, r>>] + prober.destroyed[<<u, r>>] > 0

\* while a batch is awaited, every promise of the batch is settled or has
\* something pending that will call resolve or schedule what does; the
\* loop has ended only after every promise was resolved with a boolean
PromisesSettle ==
  /\ prober.phase = "waiting" =>
       \A u \in Batch(prober) : prober.settled[u] \/ Pending(u)
  /\ prober.phase \in {"waiting", "sleeping", "start", "done", "exited"} =>
       \A u \in DOMAIN prober.urls :
          /\ prober.settled[u] => prober.value[u] \in BOOLEAN
          /\ u \notin Unmapped(prober) /\ prober.phase # "waiting" => prober.settled[u]

====
